---- MODULE Spec2Model ----
(***************************************************************************)
(* A model of the admission gate pipeline (src/gates), the four-stage      *)
(* enrichment chain (src/processors/chain_executor.py), the per-article    *)
(* processing loop (src/pipeline/orchestrator.py) and the cost tracker     *)
(* (src/pipeline/cost_tracker.py) of agentic-news-trm.                     *)
(*                                                                         *)
(* Conventions.                                                            *)
(*  - Text is a sequence of one-character strings, so that str.strip() and *)
(*    len() are computed and not assumed.                                  *)
(*  - A key of a parsed JSON response is a sequence: <<>> when the key is  *)
(*    absent, <<v>> when it is present with value v (dict.get(k, d) is     *)
(*    Get(f, d)).                                                          *)
(*  - Time is counted in whole hours; ratios in [0,1] are counted in       *)
(*    hundredths; money is counted in millionths of a dollar, so that the  *)
(*    per-million-token prices are exact integers.                         *)
(***************************************************************************)
EXTENDS Integers, Sequences, FiniteSets, TLC

(***************************************************************************)
(* Bounds of the model.                                                    *)
(***************************************************************************)
\* longest article list handed to run_processing
MaxArticles == 2
\* largest token count the text-generation collaborator reports for a call
MaxTok == 2
\* number of times the wall clock advances
MaxTicks == 2
\* most cost records a tracker holds between two resets
MaxRecords == 2
\* most articles the raw-news partition of the day holds
MaxCorpus == 2

(***************************************************************************)
(* Program constants.                                                      *)
(***************************************************************************)
MIN_CONTENT_LENGTH == 200
MAX_CONTENT_LENGTH == 50000
\* REQUIRED_SPANISH_RATIO = 0.3, in hundredths
REQUIRED_SPANISH_RATIO == 30
MAX_ARTICLE_AGE_HOURS == 200
MIN_KEYWORD_MATCHES == 2
\* dollars per million tokens
ANTHROPIC_INPUT_COST_PER_1M == 3
ANTHROPIC_OUTPUT_COST_PER_1M == 15
\* SummarizationOutput.validate_summary: len(v.strip()) < 10
MIN_SUMMARY_LENGTH == 10
\* RankingOutput.validate_justification: len(v.strip()) < 20
MIN_JUSTIFICATION_LENGTH == 20
\* response_json.get("score", 3)
DEFAULT_SCORE == 3
\* response_json.get("confidence", 0.5), in hundredths
DEFAULT_CONFIDENCE == 50
\* SIMILARITY_THRESHOLD = 0.9, in hundredths
SIMILARITY_THRESHOLD == 90
\* hours by which one tick advances the wall clock
TickHours == 100
\* the wall clock at construction, in hours after the reference instant 0
StartHour == 50

(***************************************************************************)
(* Text.                                                                   *)
(***************************************************************************)
Min(a, b) == IF a < b THEN a ELSE b

\* n non-blank characters
X(n) == [i \in 1..n |-> "x"]
\* n blanks
Blank(n) == [i \in 1..n |-> " "]
\* s with one blank on each side
Pad(s) == <<" ">> \o s \o <<" ">>

RECURSIVE LStrip(_)
LStrip(s) == IF s # <<>> /\ Head(s) = " " THEN LStrip(Tail(s)) ELSE s

RECURSIVE RStrip(_)
RStrip(s) ==
    IF s # <<>> /\ s[Len(s)] = " " THEN RStrip(SubSeq(s, 1, Len(s) - 1)) ELSE s

\* str.strip()
Strip(s) == RStrip(LStrip(s))

\* dict.get(key, default)
Get(f, d) == IF f = <<>> THEN d ELSE f[1]

\* str.lower(), on the letters the titles of the model use
LowerChar(c) ==
    CASE c = "A" -> "a" [] c = "B" -> "b" [] c = "J" -> "j" [] OTHER -> c

\* normalize_text: text.lower().strip()
normalize_text(text) == Strip([i \in DOMAIN text |-> LowerChar(text[i])])

\* the blocks a[i..i+k-1] = b[j..j+k-1], k >= 1, within a[alo..ahi] and
\* b[blo..bhi], as triples << i, j, k >>
Blocks(a, alo, ahi, b, blo, bhi) ==
    { blk \in (alo..ahi) \X (blo..bhi)
                 \X (1..Min(ahi - alo + 1, bhi - blo + 1)) :
        /\ blk[1] + blk[3] - 1 <= ahi
        /\ blk[2] + blk[3] - 1 <= bhi
        /\ \A d \in 0..(blk[3] - 1) : a[blk[1] + d] = b[blk[2] + d] }

\* SequenceMatcher.find_longest_match: of the longest blocks the one that
\* starts earliest in a, and of those the one that starts earliest in b
find_longest_match(a, alo, ahi, b, blo, bhi) ==
    LET blocks == Blocks(a, alo, ahi, b, blo, bhi)
    IN  CHOOSE blk \in blocks :
            \A other \in blocks :
                \/ blk[3] > other[3]
                \/ blk[3] = other[3] /\ blk[1] < other[1]
                \/ blk[3] = other[3] /\ blk[1] = other[1] /\ blk[2] <= other[2]

\* SequenceMatcher.get_matching_blocks, summed: the longest block, then the
\* same to its left and to its right
RECURSIVE MatchingCharacters(_, _, _, _, _, _)
MatchingCharacters(a, alo, ahi, b, blo, bhi) ==
    IF Blocks(a, alo, ahi, b, blo, bhi) = {} THEN 0
    ELSE LET blk == find_longest_match(a, alo, ahi, b, blo, bhi)
         IN  blk[3]
             + MatchingCharacters(a, alo, blk[1] - 1, b, blo, blk[2] - 1)
             + MatchingCharacters(a, blk[1] + blk[3], ahi,
                                  b, blk[2] + blk[3], bhi)

\* calculate_similarity: SequenceMatcher(None, n1, n2).ratio() of the
\* normalized texts, 2 * M / T as the exact quotient [num, den]; 1.0 when
\* both are empty
calculate_similarity(text1, text2) ==
    LET a == normalize_text(text1)
        b == normalize_text(text2)
    IN  IF Len(a) + Len(b) = 0 THEN [num |-> 1, den |-> 1]
        ELSE [num |-> 2 * MatchingCharacters(a, 1, Len(a), b, 1, Len(b)),
              den |-> Len(a) + Len(b)]

(***************************************************************************)
(* Outcomes.  A call either returns a value or raises.                     *)
(***************************************************************************)
Ok(v) == [ok |-> TRUE, error |-> "", value |-> << v >>]
Raise(e) == [ok |-> FALSE, error |-> e, value |-> <<>>]

(***************************************************************************)
(* Articles.  An article is read-only input of the gates and the chain.    *)
(* Its text is described by what the gates measure of it: the length of    *)
(* the body, the number of language-marker occurrences and of words in it, *)
(* whether title and body are blank, and the lexicon phrases that occur in *)
(* title plus body.  url lists the /YYYY/MM/DD/ segments of the URL, in    *)
(* the order they occur in it, each as the three numbers its digits spell  *)
(* (<<>> when the URL has none).  The title is spelled out for the         *)
(* comparison of titles; hash_content names the content.                   *)
(***************************************************************************)
\* the titles of the articles, by article_id
ArticleTitles ==
    << << "a", "b", "c", "d", "e", "f", "g", "h", "i", "j" >>,
       << " ", "A", "B", "c", "d", "e", "f", "g", "h", "i", "J", " " >>,
       << "a", "b", "c", "d", "e", "f", "g", "h", "i", "x" >>,
       << "a", "b", "x", "d", "e", "f", "g", "h", "y", "j" >>,
       << " ", " " >>,
       << "j", "i", "h", "g", "f", "e", "d", "c", "b", "a" >>,
       << "z", "z", "z", "z" >> >>

\* the content hashes of the articles, by article_id: article 7 has the
\* content of article 1 under another title
ArticleHashes == << "h1", "h2", "h3", "h4", "h5", "h6", "h1" >>

Article(id, len, spanish, words, titleBlank, terms, url, scraped) ==
    [article_id |-> id, content_length |-> len, spanish_count |-> spanish,
     word_count |-> words, title_blank |-> titleBlank,
     content_blank |-> (words = 0), terms |-> terms,
     url |-> url, scraped_at |-> scraped,
     title |-> ArticleTitles[id], hash_content |-> ArticleHashes[id]]

\* a /YYYY/MM/DD/ segment of a URL
Seg(year, month, day) == [year |-> year, month |-> month, day |-> day]

\* The articles of the model: one that every gate admits while it is fresh,
\* one that every gate rejects, one per single defect, one whose text holds a
\* single phrase of the lexicon, one with the content of the first.  The
\* URLs carry a date long past (2), a date that turns too old after a while
\* (4), digits that spell no date (5), a date that reaches the maximal age
\* exactly (6), digits that spell no date followed by a date (7).
ArticlePool ==
    << Article(1, 300, 40, 50, FALSE, {"gobierno", "petroleo"}, <<>>, 0),
       Article(2, 150, 2, 25, FALSE, {"gobierno"}, << Seg(2025, 1, 1) >>, 0),
       Article(3, 300, 40, 50, FALSE, {"futbol"}, <<>>, 0),
       Article(4, 300, 40, 50, FALSE, {"acuerdo de paz", "banco"},
               << Seg(2025, 1, 9) >>, 0),
       Article(5, 300, 40, 50, TRUE, {"gobierno", "banco"},
               << Seg(2025, 13, 45) >>, 0),
       Article(6, 300, 40, 50, FALSE, {"exportacion"},
               << Seg(2025, 1, 11) >>, 0),
       Article(7, 300, 40, 50, FALSE, {"gobierno", "petroleo"},
               << Seg(2025, 2, 30), Seg(2025, 1, 1) >>, 0) >>

ArticleIds == 1..Len(ArticlePool)

\* the articles run_scraping saves to the day's partition, in this order
ScrapedIds == << 3, 1, 4 >>

(***************************************************************************)
(* Gates (src/gates).                                                      *)
(***************************************************************************)
\* _create_result that names the base class instead of the gate
GateCheckResultOfBase(article, name, passed, reason) ==
    [article_id |-> article.article_id, gate_name |-> "base",
     passed |-> passed, gate_reason |-> reason]

\* BaseGate._create_result; a reason is a tuple, the message first
GateCheckResult(article, name, passed, reason) ==
    [article_id |-> article.article_id, gate_name |-> name,
     passed |-> passed, gate_reason |-> reason]

\* ContentQualityGate._detect_spanish_ratio, in hundredths
detect_spanish_ratio(article) ==
    IF article.word_count = 0 THEN 0
    ELSE Min((article.spanish_count * 100) \div article.word_count, 100)

\* ContentQualityGate.check with the title looked at before the language
ContentQualityCheckTitleFirst(article) ==
    LET R(passed, reason) ==
            GateCheckResult(article, "content_quality", passed, reason)
    IN  IF article.content_length < MIN_CONTENT_LENGTH
          THEN R(FALSE, <<"Content too short">>)
        ELSE IF article.content_length > MAX_CONTENT_LENGTH
          THEN R(FALSE, <<"Content too long">>)
        ELSE IF article.title_blank
          THEN R(FALSE, <<"Missing title">>)
        ELSE IF detect_spanish_ratio(article) < REQUIRED_SPANISH_RATIO
          THEN R(FALSE, <<"Spanish ratio too low">>)
        ELSE IF article.content_blank
          THEN R(FALSE, <<"Missing content">>)
        ELSE R(TRUE, <<"Quality checks passed">>)

\* ContentQualityGate.check
ContentQualityCheck(article) ==
    LET R(passed, reason) ==
            GateCheckResult(article, "content_quality", passed, reason)
    IN  IF article.content_length < MIN_CONTENT_LENGTH
          THEN R(FALSE, <<"Content too short">>)
        ELSE IF article.content_length > MAX_CONTENT_LENGTH
          THEN R(FALSE, <<"Content too long">>)
        ELSE IF detect_spanish_ratio(article) < REQUIRED_SPANISH_RATIO
          THEN R(FALSE, <<"Spanish ratio too low">>)
        ELSE IF article.title_blank
          THEN R(FALSE, <<"Missing title">>)
        ELSE IF article.content_blank
          THEN R(FALSE, <<"Missing content">>)
        ELSE R(TRUE, <<"Quality checks passed">>)

\* An excerpt of the flattened lexicon, in the order of the source: the
\* phrase "exportacion" is listed under two categories and so occurs twice.
ALL_RELEVANT_KEYWORDS ==
    << "banco", "exportacion", "gobierno", "acuerdo", "paz", "acuerdo de paz",
       "petroleo", "exportacion" >>

\* keyword in text_lower: the keyword is a substring of a phrase of the text
KeywordIn(keyword, terms) ==
    \/ keyword \in terms
    \/ keyword \in {"acuerdo", "paz"} /\ "acuerdo de paz" \in terms

\* TopicRelevanceGate._count_keyword_matches: the list of matched keywords
count_keyword_matches(terms) ==
    SelectSeq(ALL_RELEVANT_KEYWORDS, LAMBDA k : KeywordIn(k, terms))

\* TopicRelevanceGate.check
TopicRelevanceCheck(article) ==
    LET match_count == Len(count_keyword_matches(article.terms))
    IN  IF match_count < MIN_KEYWORD_MATCHES
          THEN GateCheckResult(article, "topic_relevance", FALSE,
                               <<"Insufficient keyword matches">>)
          ELSE GateCheckResult(article, "topic_relevance", TRUE,
                               <<"Found relevant keywords">>)

\* the instant the hours of the model are counted from
Epoch == [year |-> 2025, month |-> 1, day |-> 13, hour |-> 2]

\* the Gregorian calendar of datetime
IsLeap(year) ==
    year % 4 = 0 /\ (year % 100 # 0 \/ year % 400 = 0)

DaysInMonth(year, month) ==
    CASE month \in {4, 6, 9, 11} -> 30
      [] month = 2 -> IF IsLeap(year) THEN 29 ELSE 28
      [] OTHER -> 31

\* the days of the year before the first of the month
RECURSIVE DaysBeforeMonth(_, _)
DaysBeforeMonth(year, month) ==
    IF month <= 1 THEN 0
    ELSE DaysBeforeMonth(year, month - 1) + DaysInMonth(year, month - 1)

\* the days from the first of January of the year of Epoch to that of year
RECURSIVE DaysBeforeYear(_)
DaysBeforeYear(year) ==
    IF year = Epoch.year THEN 0
    ELSE IF year > Epoch.year
      THEN DaysBeforeYear(year - 1) + (IF IsLeap(year - 1) THEN 366 ELSE 365)
      ELSE DaysBeforeYear(year + 1) - (IF IsLeap(year) THEN 366 ELSE 365)

\* datetime(year, month, day): midnight of the day in hours, ValueError when
\* the numbers are no date of the calendar
datetime(year, month, day) ==
    IF /\ year \in 1..9999
       /\ month \in 1..12
       /\ day \in 1..DaysInMonth(year, month)
      THEN Ok(24 * (DaysBeforeYear(year) + DaysBeforeMonth(year, month) + day
                    - (DaysBeforeMonth(Epoch.year, Epoch.month) + Epoch.day))
              - Epoch.hour)
      ELSE Raise("ValueError")

\* parse_date_from_url that looks for the first segment that spells a date
RECURSIVE parse_date_from_url_any(_)
parse_date_from_url_any(url) ==
    IF url = <<>> THEN <<>>
    ELSE LET parsed == datetime(url[1].year, url[1].month, url[1].day)
         IN  IF parsed.ok THEN parsed.value
             ELSE parse_date_from_url_any(Tail(url))

\* parse_date_from_url: the date of the first /YYYY/MM/DD/ segment, None
\* (<<>>) when the URL has no such segment or its digits spell no date
parse_date_from_url(url) ==
    IF url = <<>> THEN <<>>
    ELSE LET parsed == datetime(url[1].year, url[1].month, url[1].day)
         IN  IF parsed.ok THEN parsed.value ELSE <<>>

\* get_article_age_hours with the clock read once, when the program started
get_article_age_hours_at_start(article_date, t) == StartHour - article_date

\* get_article_age_hours, against the wall clock t
get_article_age_hours(article_date, t) == t - article_date

\* TemporalRelevanceGate.check that rejects from the maximal age on
TemporalRelevanceCheckInclusive(article, t) ==
    LET parsed == parse_date_from_url(article.url)
        fromUrl == parsed # <<>>
        article_date == IF fromUrl THEN parsed[1] ELSE article.scraped_at
        date_source == IF fromUrl THEN "URL" ELSE "scraped_at"
        age_hours == get_article_age_hours(article_date, t)
    IN  IF age_hours >= MAX_ARTICLE_AGE_HOURS
          THEN GateCheckResult(article, "temporal_relevance", FALSE,
                               <<"Article too old", date_source, age_hours>>)
          ELSE GateCheckResult(article, "temporal_relevance", TRUE,
                               <<"Article is recent", date_source, age_hours>>)

\* TemporalRelevanceGate.check, evaluated when the wall clock shows t
TemporalRelevanceCheck(article, t) ==
    LET parsed == parse_date_from_url(article.url)
        fromUrl == parsed # <<>>
        article_date == IF fromUrl THEN parsed[1] ELSE article.scraped_at
        date_source == IF fromUrl THEN "URL" ELSE "scraped_at"
        age_hours == get_article_age_hours(article_date, t)
    IN  IF age_hours > MAX_ARTICLE_AGE_HOURS
          THEN GateCheckResult(article, "temporal_relevance", FALSE,
                               <<"Article too old", date_source, age_hours>>)
          ELSE GateCheckResult(article, "temporal_relevance", TRUE,
                               <<"Article is recent", date_source, age_hours>>)

\* The lookups of the storage read the raw news of the day's partition; a
\* read that raises is caught inside the lookup.  faults is the set of the
\* lookups whose read raises at present.
StorageLookups == {"hash_exists", "find_similar_titles"}

\* hash_exists that takes a hash for present when the read raises
hash_exists_fail_closed(content_hash, raw_news, faults) ==
    IF "hash_exists" \in faults THEN TRUE
    ELSE \E i \in 1..Len(raw_news) : raw_news[i].hash_content = content_hash

\* ParquetStorage.hash_exists
hash_exists(content_hash, raw_news, faults) ==
    IF "hash_exists" \in faults THEN FALSE
    ELSE \E i \in 1..Len(raw_news) : raw_news[i].hash_content = content_hash

\* similarity > threshold
AtLeastStrict(similarity, threshold) ==
    similarity.num * 100 > threshold * similarity.den

\* similarity >= threshold, the threshold in hundredths
AtLeast(similarity, threshold) ==
    similarity.num * 100 >= threshold * similarity.den

\* ParquetStorage.find_similar_titles: the titles of the partition, in its
\* order, whose similarity to the title is at least the threshold
find_similar_titles(title, threshold, raw_news, faults) ==
    IF "find_similar_titles" \in faults THEN <<>>
    ELSE LET titles == [i \in 1..Len(raw_news) |-> raw_news[i].title]
         IN  SelectSeq(titles,
                       LAMBDA other :
                           AtLeast(calculate_similarity(title, other),
                                   threshold))

\* DuplicateDetectionGate.check with the titles compared before the hash
DuplicateDetectionCheckTitlesFirst(article, raw_news, faults) ==
    LET R(passed, reason) ==
            GateCheckResult(article, "duplicate_detection", passed, reason)
        similar_titles == find_similar_titles(article.title,
                                              SIMILARITY_THRESHOLD,
                                              raw_news, faults)
    IN  IF similar_titles # <<>>
          THEN R(FALSE, <<"Similar title found", similar_titles[1]>>)
        ELSE IF hash_exists(article.hash_content, raw_news, faults)
          THEN R(FALSE, <<"Duplicate content hash">>)
        ELSE R(TRUE, <<"No duplicates detected">>)

\* DuplicateDetectionGate.check against the partition raw_news
DuplicateDetectionCheck(article, raw_news, faults) ==
    LET R(passed, reason) ==
            GateCheckResult(article, "duplicate_detection", passed, reason)
        similar_titles == find_similar_titles(article.title,
                                              SIMILARITY_THRESHOLD,
                                              raw_news, faults)
    IN  IF hash_exists(article.hash_content, raw_news, faults)
          THEN R(FALSE, <<"Duplicate content hash">>)
        ELSE IF similar_titles # <<>>
          THEN R(FALSE, <<"Similar title found", similar_titles[1]>>)
        ELSE R(TRUE, <<"No duplicates detected">>)

\* the lookups DuplicateDetectionGate.check makes of the storage, in order
DuplicateDetectionLookups(article, raw_news, faults) ==
    IF hash_exists(article.hash_content, raw_news, faults)
      THEN << "hash_exists" >>
      ELSE << "hash_exists", "find_similar_titles" >>

\* the names of the gates
GateKinds ==
    {"content_quality", "topic_relevance", "duplicate_detection",
     "temporal_relevance"}

\* The gate lists a pipeline is constructed with: the default wiring of the
\* orchestrator, the same gates in another order, the wiring with the
\* duplicate detection it has commented out, one gate, no gate, and each
\* gate listed twice, by which a call evaluates it twice on the article.
GateConfigs ==
    { << gate, gate >> : gate \in GateKinds } \cup
    { << "content_quality", "topic_relevance", "temporal_relevance" >>,
      << "temporal_relevance", "topic_relevance", "content_quality" >>,
      << "content_quality", "topic_relevance", "duplicate_detection",
         "temporal_relevance" >>,
      << "topic_relevance" >>,
      << >> }

(***************************************************************************)
(* State.                                                                  *)
(***************************************************************************)
VARIABLES
    \* the storage and what the gates read of it
    corpus,           \* the raw news of the day's partition, in file order
    storage_faults,   \* the lookups whose read of the partition raises now
    lookups,          \* the lookups the call in progress made, in order
    evaluated         \* what each check of the call read of clock and storage

VARIABLES
    \* GatePipeline
    gates,            \* self.gates, set by the constructor
    now,              \* the wall clock, in hours
    ticks,            \* how often the wall clock has advanced
    gate_pc,          \* "new", "idle", "loop" or "returned"
    gate_mode,        \* the method called last: "run" or "run_all"
    gate_article,     \* the article of the call in progress (<<>> if none)
    gate_i,           \* index of the gate the loop visits next
    results,          \* the local list results
    all_passed,       \* the local flag of run_all_gates
    checked,          \* names of the gates whose check was invoked, in order
    gate_ret          \* what the last call returned: <<>> or <<[passed, results]>>

VARIABLES
    \* PipelineOrchestrator.run_processing
    proc_pc,            \* "idle", "loop", "chain" or "done"
    articles,           \* the list run_processing was called with
    proc_i,             \* index of the article the loop visits next
    processed_articles, \* the local list processed_articles
    attempted,          \* ids of the articles whose chain was started, in order
    cost_tracker,       \* self.cost_tracker
    \* ChainExecutor.execute_full_chain, for the article in progress
    chain_stage,        \* the stage to execute next (0: no chain in progress)
    summary_output,     \* <<>> or << output of stage 1 >>
    topic_output,       \* <<>> or << output of stage 2 >>
    impact_output,      \* <<>> or << output of stage 3 >>
    total_input_tokens, \* the local accumulators of the chain
    total_output_tokens,
    total_processing_time_ms,
    \* a record of what happened, kept for the properties
    llm_calls,          \* stages that called the collaborator, in order
    replies,            \* the collaborator's replies, in order
    mapped,             \* scores the stage-4 mappings were evaluated on
    chain_outcome,      \* <<>> or << [article_id, ok, stage, error] >>
    succeeded,          \* ids of the articles whose chain returned, in order
    tracker_at_start    \* cost_tracker when the article was started

VARIABLES
    \* callers of the CostTracker
    report,             \* what generate_report returned last, as its caller
                        \* reads it now: <<>> or << r >>
    aliased,            \* the cost_breakdown of that report is the very list
                        \* self.article_costs, and the caller still holds it
    threshold_ret,      \* the last check_cost_threshold: <<>> or
                        \* << [threshold_usd, total_cost_usd, exceeded] >>,
                        \* total_cost_usd being the total it compared
    \* a record of what happened, kept for the properties
    added,              \* the ProcessedNews added since the last reset, in order
    alerted             \* a check_cost_threshold has returned true

VARIABLES
    \* callers of the GatePipeline
    earlier     \* what a caller kept of the call before this one on the same
                \* article: <<>> or << [mode, ret, evaluated] >>

VARIABLES
    \* callers of add_processed_article on one tracker
    workers,    \* for each worker, where it is in add_processed_article:
                \* [pc, k, processed, loaded]
    overlapped  \* a call has begun while another was in progress

workerVars == << workers, overlapped >>

VARIABLES
    \* main and PipelineOrchestrator.run_full_pipeline, run_gates
    orch_pc,          \* "start", "gates", "processing" or "exit"
    command,          \* args.command, once main has read it
    main_articles,    \* the local articles: scraped, or read from the storage
    gate_n,           \* run_gates: index of the article the loop visits next
    passed_articles,  \* run_gates: the local list passed_articles
    all_gate_results, \* run_gates: the local list all_gate_results
    start_time,       \* run_full_pipeline: the local start_time
    stats,            \* what run_full_pipeline returned: <<>> or << dict >>
    exit_code         \* what main returned: <<>> or << code >>

orchVars ==
    << orch_pc, command, main_articles, gate_n, passed_articles,
       all_gate_results, start_time, stats, exit_code >>

callerVars == << earlier, workerVars, orchVars >>

storageVars == << corpus, storage_faults >>

gateVars ==
    << gates, now, ticks, gate_pc, gate_mode, gate_article, gate_i, results,
       all_passed, checked, gate_ret, corpus, storage_faults, lookups,
       evaluated >>

\* gate.check(article) for the gate of the given name, when the wall clock
\* shows t
GateCheck(gate, article, t) ==
    CASE gate = "content_quality" -> ContentQualityCheck(article)
      [] gate = "topic_relevance" -> TopicRelevanceCheck(article)
      [] gate = "duplicate_detection" ->
             DuplicateDetectionCheck(article, corpus, storage_faults)
      [] gate = "temporal_relevance" -> TemporalRelevanceCheck(article, t)

\* what gate.check reads of its surroundings when it is made now: the
\* temporal gate the wall clock, duplicate detection the storage, whose
\* reads raise or not and which holds so many rows; the other gates nothing
Evaluation(gate) ==
    [at |-> IF gate = "temporal_relevance" THEN << now >> ELSE <<>>,
     faults |-> IF gate = "duplicate_detection" THEN << storage_faults >>
                                                ELSE <<>>,
     rows |-> IF gate = "duplicate_detection" THEN << Len(corpus) >>
                                              ELSE <<>>]

\* the lookups of the storage that gate.check(article) makes
GateLookups(gate, article) ==
    IF gate = "duplicate_detection"
      THEN DuplicateDetectionLookups(article, corpus, storage_faults)
      ELSE <<>>

chainVars ==
    << chain_stage, summary_output, topic_output, impact_output,
       total_input_tokens, total_output_tokens, total_processing_time_ms >>

procVars ==
    << proc_pc, articles, proc_i, processed_articles, attempted, cost_tracker,
       chain_stage, summary_output, topic_output, impact_output,
       total_input_tokens, total_output_tokens, total_processing_time_ms,
       llm_calls, replies, mapped, chain_outcome, succeeded,
       tracker_at_start, report, aliased, threshold_ret, added, alerted >>

auditVars == << report, aliased, threshold_ret, alerted >>

vars == << gateVars, procVars, callerVars >>

\* the workers that share the tracker
Workers == {1, 2}

\* a worker outside add_processed_article
IdleWorker == [pc |-> "idle", k |-> 0, processed |-> <<>>, loaded |-> 0]

CallerInit ==
    /\ earlier = <<>>
    /\ workers = [w \in Workers |-> IdleWorker]
    /\ overlapped = FALSE
    /\ orch_pc = "start"
    /\ command = ""
    /\ main_articles = <<>>
    /\ gate_n = 1
    /\ passed_articles = <<>>
    /\ all_gate_results = <<>>
    /\ start_time = 0
    /\ stats = <<>>
    /\ exit_code = <<>>

GateInit ==
    /\ gates = <<>>
    /\ now = StartHour
    /\ ticks = 0
    /\ gate_pc = "new"
    /\ gate_mode = "run"
    /\ gate_article = <<>>
    /\ gate_i = 1
    /\ results = <<>>
    /\ all_passed = TRUE
    /\ checked = <<>>
    /\ gate_ret = <<>>
    /\ corpus = <<>>
    /\ storage_faults = {}
    /\ lookups = <<>>
    /\ evaluated = <<>>

\* run_scraping saves the next scraped article to the day's partition; the
\* partition is not written while a gate call is in progress
WriteRawNews ==
    /\ gate_pc # "loop"
    /\ Len(corpus) < MaxCorpus
    /\ Len(corpus) < Len(ScrapedIds)
    /\ corpus' = Append(corpus, ArticlePool[ScrapedIds[Len(corpus) + 1]])
    /\ UNCHANGED << gates, now, ticks, gate_pc, gate_mode, gate_article,
                    gate_i, results, all_passed, checked, gate_ret,
                    storage_faults, lookups, evaluated >>
    /\ UNCHANGED << procVars, callerVars >>

\* the partition becomes unreadable or readable again for some lookups
StorageFaultsChange(faults) ==
    /\ faults # storage_faults
    /\ storage_faults' = faults
    /\ UNCHANGED << gates, now, ticks, gate_pc, gate_mode, gate_article,
                    gate_i, results, all_passed, checked, gate_ret, corpus,
                    lookups, evaluated >>
    /\ UNCHANGED << procVars, callerVars >>

\* the wall clock advances between any two steps of the program
Tick ==
    /\ ticks < MaxTicks
    /\ ticks' = ticks + 1
    /\ now' = now + TickHours
    /\ UNCHANGED << gates, gate_pc, gate_mode, gate_article, gate_i, results,
                    all_passed, checked, gate_ret, storageVars, lookups,
                    evaluated >>
    /\ UNCHANGED << procVars, callerVars >>

\* GatePipeline.__init__
GatePipelineNew(gs) ==
    /\ gate_pc = "new"
    /\ gate_pc' = "idle"
    /\ gates' = gs
    /\ UNCHANGED << now, ticks, gate_mode, gate_article, gate_i, results,
                    all_passed, checked, gate_ret, storageVars, lookups,
                    evaluated >>
    /\ UNCHANGED << procVars, callerVars >>

\* a caller enters GatePipeline.run(article) or run_all_gates(article)
GateCall(mode, article) ==
    /\ gate_pc \in {"idle", "returned"}
    /\ gate_pc' = "loop"
    /\ gate_mode' = mode
    /\ gate_article' = << article >>
    /\ gate_i' = 1
    /\ results' = <<>>
    /\ all_passed' = TRUE
    /\ checked' = <<>>
    /\ gate_ret' = <<>>
    /\ lookups' = <<>>
    /\ evaluated' = <<>>
    /\ earlier' = <<>>
    /\ UNCHANGED << gates, now, ticks, storageVars >>
    /\ UNCHANGED << procVars, workerVars, orchVars >>

\* a caller that has the return of one method calls the other method on the
\* same article, and keeps the first return to compare
GateCallAgain(mode) ==
    /\ gate_pc = "returned"
    /\ gate_mode # mode
    /\ earlier = <<>>
    /\ earlier' = << [mode |-> gate_mode, ret |-> gate_ret[1],
                      evaluated |-> evaluated] >>
    /\ gate_pc' = "loop"
    /\ gate_mode' = mode
    /\ gate_i' = 1
    /\ results' = <<>>
    /\ all_passed' = TRUE
    /\ checked' = <<>>
    /\ gate_ret' = <<>>
    /\ lookups' = <<>>
    /\ evaluated' = <<>>
    /\ UNCHANGED << gates, now, ticks, gate_article, storageVars >>
    /\ UNCHANGED << procVars, workerVars, orchVars >>

\* RunIteration without the early return: a failed gate does not stop the loop
RunIterationKeepsGoing ==
    /\ gate_pc = "loop"
    /\ gate_mode = "run"
    /\ gate_i <= Len(gates)
    /\ checked' = Append(checked, gates[gate_i])
    /\ results' = Append(results, GateCheck(gates[gate_i], gate_article[1], now))
    /\ lookups' = lookups \o GateLookups(gates[gate_i], gate_article[1])
    /\ evaluated' = Append(evaluated, Evaluation(gates[gate_i]))
    /\ gate_i' = gate_i + 1
    /\ UNCHANGED << gates, now, ticks, gate_pc, gate_mode, gate_article,
                    all_passed, gate_ret, storageVars >>
    /\ UNCHANGED << procVars, callerVars >>

\* GatePipeline.run: one iteration of the loop over self.gates
RunIteration ==
    /\ gate_pc = "loop"
    /\ gate_mode = "run"
    /\ gate_i <= Len(gates)
    /\ LET result == GateCheck(gates[gate_i], gate_article[1], now)
       IN  /\ checked' = Append(checked, gates[gate_i])
           /\ results' = Append(results, result)
           /\ IF ~ result.passed
                THEN /\ gate_pc' = "returned"
                     /\ gate_ret' = << [passed |-> FALSE, results |-> results'] >>
                     /\ UNCHANGED gate_i
                ELSE /\ gate_i' = gate_i + 1
                     /\ UNCHANGED << gate_pc, gate_ret >>
    /\ lookups' = lookups \o GateLookups(gates[gate_i], gate_article[1])
    /\ evaluated' = Append(evaluated, Evaluation(gates[gate_i]))
    /\ UNCHANGED << gates, now, ticks, gate_mode, gate_article, all_passed,
                    storageVars >>
    /\ UNCHANGED << procVars, callerVars >>

\* GatePipeline.run: the loop is exhausted, every gate passed
RunReturn ==
    /\ gate_pc = "loop"
    /\ gate_mode = "run"
    /\ gate_i > Len(gates)
    /\ gate_pc' = "returned"
    /\ gate_ret' = << [passed |-> TRUE, results |-> results] >>
    /\ UNCHANGED << gates, now, ticks, gate_mode, gate_article, gate_i,
                    results, all_passed, checked, storageVars, lookups,
                    evaluated >>
    /\ UNCHANGED << procVars, callerVars >>

\* RunAllIteration with the flag overwritten by the outcome of each gate
RunAllIterationLastWins ==
    /\ gate_pc = "loop"
    /\ gate_mode = "run_all"
    /\ gate_i <= Len(gates)
    /\ LET result == GateCheck(gates[gate_i], gate_article[1], now)
       IN  /\ checked' = Append(checked, gates[gate_i])
           /\ results' = Append(results, result)
           /\ all_passed' = result.passed
    /\ gate_i' = gate_i + 1
    /\ lookups' = lookups \o GateLookups(gates[gate_i], gate_article[1])
    /\ evaluated' = Append(evaluated, Evaluation(gates[gate_i]))
    /\ UNCHANGED << gates, now, ticks, gate_pc, gate_mode, gate_article,
                    gate_ret, storageVars >>
    /\ UNCHANGED << procVars, callerVars >>

\* GatePipeline.run_all_gates: one iteration of the loop over self.gates
RunAllIteration ==
    /\ gate_pc = "loop"
    /\ gate_mode = "run_all"
    /\ gate_i <= Len(gates)
    /\ LET result == GateCheck(gates[gate_i], gate_article[1], now)
       IN  /\ checked' = Append(checked, gates[gate_i])
           /\ results' = Append(results, result)
           /\ all_passed' = IF ~ result.passed THEN FALSE ELSE all_passed
    /\ gate_i' = gate_i + 1
    /\ lookups' = lookups \o GateLookups(gates[gate_i], gate_article[1])
    /\ evaluated' = Append(evaluated, Evaluation(gates[gate_i]))
    /\ UNCHANGED << gates, now, ticks, gate_pc, gate_mode, gate_article,
                    gate_ret, storageVars >>
    /\ UNCHANGED << procVars, callerVars >>

\* GatePipeline.run_all_gates: the loop is exhausted
RunAllReturn ==
    /\ gate_pc = "loop"
    /\ gate_mode = "run_all"
    /\ gate_i > Len(gates)
    /\ gate_pc' = "returned"
    /\ gate_ret' = << [passed |-> all_passed, results |-> results] >>
    /\ UNCHANGED << gates, now, ticks, gate_mode, gate_article, gate_i,
                    results, all_passed, checked, storageVars, lookups,
                    evaluated >>
    /\ UNCHANGED << procVars, callerVars >>

(***************************************************************************)
(* Enumerations (src/models/enums.py): the values of each Enum.            *)
(***************************************************************************)
TopicCategory ==
    {"economy", "politics", "security", "energy", "international",
     "monetary", "other"}
ImpactDirection == {"POSITIVE", "NEGATIVE", "NEUTRAL"}
TimeHorizon == {"short-term", "medium-term", "long-term"}
RankingCategory == {"Irrelevant", "Low", "Moderate", "High", "Critical"}
TraderAction == {"monitor", "alert", "urgent"}

(***************************************************************************)
(* The text-generation collaborator (src/processors/llm_client.py).  A     *)
(* reply is what LLMClient.call and the JSON parsing make of one request:  *)
(* error is "" when the response text parsed as a JSON object (json holds  *)
(* it), "TransportError" when the API call raised, "JSONDecodeError" when  *)
(* the text did not parse.  elapsed_ms is the time the stage measures from *)
(* its start to the validated output, in milliseconds.                     *)
(***************************************************************************)
Reply(json, in, out, ms) ==
    [error |-> "", json |-> << json >>, input_tokens |-> in,
     output_tokens |-> out, elapsed_ms |-> ms]
FailedReply(e) ==
    [error |-> e, json |-> <<>>, input_tokens |-> 0, output_tokens |-> 0,
     elapsed_ms |-> 0]

\* LLMClient.call_with_json_response: (parsed_json, input_tokens, output_tokens)
call_with_json_response(reply) ==
    IF reply.error # "" THEN Raise(reply.error) ELSE Ok(reply)

(***************************************************************************)
(* Validated stage outputs (src/models/schemas.py).                        *)
(***************************************************************************)
\* SummarizationOutput with the length taken before trimming
SummarizationOutputUntrimmed(summary) ==
    IF summary = <<>> \/ Len(summary) < MIN_SUMMARY_LENGTH
      THEN Raise("ValidationError")
      ELSE Ok([summary |-> Strip(summary)])

\* SummarizationOutput: validate_summary
SummarizationOutput(summary) ==
    IF summary = <<>> \/ Len(Strip(summary)) < MIN_SUMMARY_LENGTH
      THEN Raise("ValidationError")
      ELSE Ok([summary |-> Strip(summary)])

\* TopicExtractionOutput: validate_topics, confidence in [0, 1]
TopicExtractionOutput(topics, confidence) ==
    IF topics = <<>> \/ confidence < 0 \/ confidence > 100
      THEN Raise("ValidationError")
      ELSE Ok([topics |-> topics, confidence |-> confidence])

\* ImpactAnalysisOutput: validate_mechanisms
ImpactAnalysisOutput(direction, mechanisms, time_horizon) ==
    IF mechanisms = <<>>
      THEN Raise("ValidationError")
      ELSE Ok([direction |-> direction, mechanisms |-> mechanisms,
               time_horizon |-> time_horizon])

\* RankingOutput without the upper bound of the score
RankingOutputUnbounded(score, category, justification, trader_action) ==
    IF score < 1
      THEN Raise("ValidationError")
    ELSE IF justification = <<>>
            \/ Len(Strip(justification)) < MIN_JUSTIFICATION_LENGTH
      THEN Raise("ValidationError")
    ELSE Ok([score |-> score, category |-> category,
             justification |-> Strip(justification),
             trader_action |-> trader_action])

\* RankingOutput: score Field(ge=1, le=5) and validate_score,
\* validate_justification
RankingOutput(score, category, justification, trader_action) ==
    IF score < 1 \/ score > 5
      THEN Raise("ValidationError")
    ELSE IF justification = <<>>
            \/ Len(Strip(justification)) < MIN_JUSTIFICATION_LENGTH
      THEN Raise("ValidationError")
    ELSE Ok([score |-> score, category |-> category,
             justification |-> Strip(justification),
             trader_action |-> trader_action])

(***************************************************************************)
(* The four stages (src/processors/chain_executor.py).  Each returns the   *)
(* validated output with the token counts of its call, or raises.          *)
(***************************************************************************)
StageResult(output, reply) ==
    IF ~ output.ok THEN output
    ELSE Ok([output |-> output.value[1], in_tok |-> reply.input_tokens,
             out_tok |-> reply.output_tokens, proc_time |-> reply.elapsed_ms])

\* ChainExecutor.execute_step_1
execute_step_1(reply) ==
    LET called == call_with_json_response(reply)
    IN  IF ~ called.ok THEN called
        ELSE StageResult(
               SummarizationOutput(Get(reply.json[1].summary, <<>>)), reply)

\* ParseTopics that keeps the values that are no member
ParseTopicsKeepsAll(topic_strings) == topic_strings

\* the loop of execute_step_2 over topic_strings: TopicCategory(topic_str)
\* raises ValueError for a value that is no member, and the value is skipped
ParseTopics(topic_strings) ==
    SelectSeq(topic_strings, LAMBDA t : t \in TopicCategory)

\* ChainExecutor.execute_step_2.  response_json["topics"] is absent, null
\* or a list of strings; iterating over null raises TypeError.
execute_step_2(reply) ==
    LET called == call_with_json_response(reply)
        json == reply.json[1]
        topic_strings == IF json.topics.type = "absent" THEN <<>>
                                                         ELSE json.topics.items
        topics == ParseTopics(topic_strings)
    IN  IF ~ called.ok THEN called
        ELSE IF json.topics.type = "null" THEN Raise("TypeError")
        ELSE StageResult(
               TopicExtractionOutput(
                   IF topics # <<>> THEN topics ELSE << "other" >>,
                   Get(json.confidence, DEFAULT_CONFIDENCE)),
               reply)

\* execute_step_3 that raises when the response has no direction
execute_step_3_strict(reply) ==
    LET called == call_with_json_response(reply)
        json == reply.json[1]
        time_horizon == Get(json.time_horizon, "medium-term")
    IN  IF ~ called.ok THEN called
        ELSE IF json.direction = <<>> THEN Raise("KeyError")
        ELSE IF json.direction[1] \notin ImpactDirection THEN Raise("ValueError")
        ELSE IF time_horizon \notin TimeHorizon THEN Raise("ValueError")
        ELSE StageResult(
               ImpactAnalysisOutput(json.direction[1],
                                    Get(json.mechanisms, <<>>), time_horizon),
               reply)

\* ChainExecutor.execute_step_3: ImpactDirection(...) and TimeHorizon(...)
\* raise ValueError for a value that is no member
execute_step_3(reply) ==
    LET called == call_with_json_response(reply)
        json == reply.json[1]
        direction == Get(json.direction, "NEUTRAL")
        time_horizon == Get(json.time_horizon, "medium-term")
    IN  IF ~ called.ok THEN called
        ELSE IF direction \notin ImpactDirection THEN Raise("ValueError")
        ELSE IF time_horizon \notin TimeHorizon THEN Raise("ValueError")
        ELSE StageResult(
               ImpactAnalysisOutput(direction, Get(json.mechanisms, <<>>),
                                    time_horizon),
               reply)

\* execute_step_4: score_to_category.get(score, RankingCategory.MODERATE)
score_to_category(score) ==
    CASE score = 1 -> "Irrelevant"
      [] score = 2 -> "Low"
      [] score = 3 -> "Moderate"
      [] score = 4 -> "High"
      [] score = 5 -> "Critical"
      [] OTHER -> "Moderate"

\* score_to_trader_action with the first threshold off by one
score_to_trader_action_shifted(score) ==
    IF score <= 3 THEN "monitor"
    ELSE IF score <= 4 THEN "alert"
    ELSE "urgent"

\* execute_step_4: the if/elif/else chain on the score
score_to_trader_action(score) ==
    IF score <= 2 THEN "monitor"
    ELSE IF score <= 4 THEN "alert"
    ELSE "urgent"

\* execute_step_4 that keeps the declared category when it is a member of
\* RankingCategory and maps the score only otherwise
execute_step_4_declared(reply) ==
    LET called == call_with_json_response(reply)
        json == reply.json[1]
        score == Get(json.score, DEFAULT_SCORE)
        category_str == Get(json.category, "Moderate")
        category == IF category_str \in RankingCategory
                      THEN category_str ELSE score_to_category(score)
        trader_action == score_to_trader_action(score)
    IN  IF ~ called.ok THEN called
        ELSE StageResult(
               RankingOutput(score, category, Get(json.justification, <<>>),
                             trader_action),
               reply)

\* ChainExecutor.execute_step_4.  category_str is read and not used.
execute_step_4(reply) ==
    LET called == call_with_json_response(reply)
        json == reply.json[1]
        score == Get(json.score, DEFAULT_SCORE)
        category_str == Get(json.category, "Moderate")
        category == score_to_category(score)
        trader_action == score_to_trader_action(score)
    IN  IF ~ called.ok THEN called
        ELSE StageResult(
               RankingOutput(score, category, Get(json.justification, <<>>),
                             trader_action),
               reply)

\* the scores execute_step_4 evaluates the two mappings on: it maps the
\* score of every parsed response, before RankingOutput validates it
MappedScores(reply) ==
    IF reply.error # "" THEN <<>>
    ELSE << Get(reply.json[1].score, DEFAULT_SCORE) >>

(***************************************************************************)
(* ProcessedNews and the cost tracker.                                     *)
(***************************************************************************)
\* ProcessedNews.cost_usd, in millionths of a dollar
cost_usd(input_tokens, output_tokens) ==
    input_tokens * ANTHROPIC_INPUT_COST_PER_1M
    + output_tokens * ANTHROPIC_OUTPUT_COST_PER_1M

\* the ProcessedNews that execute_full_chain builds after stage 4
ProcessedNews(article, in, out, ms, summary, topic, impact, ranking) ==
    [article_id |-> article.article_id,
     chain_step |-> 4,
     input_tokens |-> in,
     output_tokens |-> out,
     processing_time_ms |-> ms,
     summary |-> summary.summary,
     topics |-> topic.topics,
     topics_confidence |-> topic.confidence,
     impact_direction |-> impact.direction,
     impact_mechanisms |-> impact.mechanisms,
     impact_time_horizon |-> impact.time_horizon,
     ranking_score |-> ranking.score,
     ranking_category |-> ranking.category,
     ranking_justification |-> ranking.justification,
     ranking_trader_action |-> ranking.trader_action]

\* CostTracker.__init__ and CostTracker.reset
NewCostTracker ==
    [total_input_tokens |-> 0, total_output_tokens |-> 0,
     total_cost_usd |-> 0, article_costs |-> <<>>]

\* add_processed_article that appends the record and leaves the cost total
add_processed_article_forgets_cost(tracker, processed) ==
    LET cost == cost_usd(processed.input_tokens, processed.output_tokens)
    IN  [total_input_tokens |->
             tracker.total_input_tokens + processed.input_tokens,
         total_output_tokens |->
             tracker.total_output_tokens + processed.output_tokens,
         total_cost_usd |-> tracker.total_cost_usd,
         article_costs |->
             Append(tracker.article_costs,
                    [article_id |-> processed.article_id,
                     input_tokens |-> processed.input_tokens,
                     output_tokens |-> processed.output_tokens,
                     total_tokens |->
                         processed.input_tokens + processed.output_tokens,
                     cost_usd |-> cost,
                     ranking_score |-> processed.ranking_score,
                     processing_time_ms |-> processed.processing_time_ms])]

\* CostTracker.add_processed_article
add_processed_article(tracker, processed) ==
    LET cost == cost_usd(processed.input_tokens, processed.output_tokens)
    IN  [total_input_tokens |->
             tracker.total_input_tokens + processed.input_tokens,
         total_output_tokens |->
             tracker.total_output_tokens + processed.output_tokens,
         total_cost_usd |-> tracker.total_cost_usd + cost,
         article_costs |->
             Append(tracker.article_costs,
                    [article_id |-> processed.article_id,
                     input_tokens |-> processed.input_tokens,
                     output_tokens |-> processed.output_tokens,
                     total_tokens |->
                         processed.input_tokens + processed.output_tokens,
                     cost_usd |-> cost,
                     ranking_score |-> processed.ranking_score,
                     processing_time_ms |-> processed.processing_time_ms])]

\* CostTracker.reset that keeps the list of cost records
reset_keeps_records(tracker) ==
    [tracker EXCEPT !.total_input_tokens = 0, !.total_output_tokens = 0,
                    !.total_cost_usd = 0]

\* CostTracker.reset
reset(tracker) ==
    [tracker EXCEPT !.total_input_tokens = 0, !.total_output_tokens = 0,
                    !.total_cost_usd = 0, !.article_costs = <<>>]

\* CostTracker.get_total_tokens
get_total_tokens(tracker) ==
    tracker.total_input_tokens + tracker.total_output_tokens

\* a quotient of two integers, kept exact; 0.0 is 0/1
Ratio(num, den) == [num |-> num, den |-> den]

\* CostTracker.get_average_cost_per_article
get_average_cost_per_article(tracker) ==
    IF tracker.article_costs = <<>> THEN Ok(Ratio(0, 1))
    ELSE Ok(Ratio(tracker.total_cost_usd, Len(tracker.article_costs)))

\* CostTracker.get_average_tokens_per_article
get_average_tokens_per_article(tracker) ==
    IF tracker.article_costs = <<>> THEN Ok(Ratio(0, 1))
    ELSE Ok(Ratio(get_total_tokens(tracker), Len(tracker.article_costs)))

\* min(costs) and max(costs); either raises ValueError on an empty list
MinOf(ns) ==
    IF ns = <<>> THEN Raise("ValueError")
    ELSE Ok(CHOOSE n \in { ns[i] : i \in DOMAIN ns } :
                \A i \in DOMAIN ns : n <= ns[i])
MaxOf(ns) ==
    IF ns = <<>> THEN Raise("ValueError")
    ELSE Ok(CHOOSE n \in { ns[i] : i \in DOMAIN ns } :
                \A i \in DOMAIN ns : n >= ns[i])

RECURSIVE SumOf(_)
SumOf(ns) == IF ns = <<>> THEN 0 ELSE Head(ns) + SumOf(Tail(ns))

\* CostReport(date=date): every other field at its default
EmptyCostReport(date) ==
    [date |-> date, total_articles |-> 0, total_input_tokens |-> 0,
     total_output_tokens |-> 0, total_tokens |-> 0, total_cost_usd |-> 0,
     avg_tokens_per_article |-> Ratio(0, 1),
     avg_cost_per_article |-> Ratio(0, 1),
     min_cost_article |-> 0, max_cost_article |-> 0,
     processing_time_ms |-> 0, cost_breakdown |-> <<>>]

\* the report of a tracker, whether or not it holds records
FullCostReport(tracker, date) ==
    LET costs == [i \in DOMAIN tracker.article_costs |->
                      tracker.article_costs[i].cost_usd]
        times == [i \in DOMAIN tracker.article_costs |->
                      tracker.article_costs[i].processing_time_ms]
        avg_tokens == get_average_tokens_per_article(tracker)
        avg_cost == get_average_cost_per_article(tracker)
    IN  IF ~ MinOf(costs).ok THEN MinOf(costs)
        ELSE Ok([date |-> date,
                 total_articles |-> Len(tracker.article_costs),
                 total_input_tokens |-> tracker.total_input_tokens,
                 total_output_tokens |-> tracker.total_output_tokens,
                 total_tokens |-> get_total_tokens(tracker),
                 total_cost_usd |-> tracker.total_cost_usd,
                 avg_tokens_per_article |-> avg_tokens.value[1],
                 avg_cost_per_article |-> avg_cost.value[1],
                 min_cost_article |-> MinOf(costs).value[1],
                 max_cost_article |-> MaxOf(costs).value[1],
                 processing_time_ms |-> SumOf(times),
                 cost_breakdown |-> tracker.article_costs])

\* the date of a report: the one given, or today by the wall clock t
ReportDate(date, t) == IF date = <<>> THEN t \div 24 ELSE date[1]

\* CostTracker.generate_report without the early return for an empty tracker
generate_report_unguarded(tracker, date, t) ==
    FullCostReport(tracker, ReportDate(date, t))

\* CostTracker.generate_report; date is <<>> (None) or << day >>
generate_report(tracker, date, t) ==
    IF tracker.article_costs = <<>>
      THEN Ok(EmptyCostReport(ReportDate(date, t)))
      ELSE FullCostReport(tracker, ReportDate(date, t))

\* generate_report hands self.article_costs itself to the report as its
\* cost_breakdown (no copy) when the tracker holds records; the report of an
\* empty tracker gets a list of its own
ShareLedger(tracker) == tracker.article_costs # <<>>

\* a report returned earlier, read after the tracker has become `tracker`:
\* a cost_breakdown that is the tracker's list shows what the list holds now
ReportRead(rep, shares, tracker) ==
    IF shares
      THEN [rep EXCEPT ![1].value[1].cost_breakdown = tracker.article_costs]
      ELSE rep

\* CostTracker.check_cost_threshold with the comparison made inclusive
check_cost_threshold_inclusive(tracker, threshold_usd) ==
    tracker.total_cost_usd >= threshold_usd

\* CostTracker.check_cost_threshold
check_cost_threshold(tracker, threshold_usd) ==
    tracker.total_cost_usd > threshold_usd

\* settings.enable_cost_alerts and settings.daily_cost_threshold_usd (10.0
\* dollars), in millionths of a dollar
enable_cost_alerts == TRUE
daily_cost_threshold_usd == 10000000

(***************************************************************************)
(* PipelineOrchestrator.run_processing and ChainExecutor.execute_full_chain*)
(***************************************************************************)
ProcInit ==
    /\ proc_pc = "idle"
    /\ articles = <<>>
    /\ proc_i = 1
    /\ processed_articles = <<>>
    /\ attempted = <<>>
    /\ cost_tracker = NewCostTracker
    /\ chain_stage = 0
    /\ summary_output = <<>>
    /\ topic_output = <<>>
    /\ impact_output = <<>>
    /\ total_input_tokens = 0
    /\ total_output_tokens = 0
    /\ total_processing_time_ms = 0
    /\ llm_calls = <<>>
    /\ replies = <<>>
    /\ mapped = <<>>
    /\ chain_outcome = <<>>
    /\ succeeded = <<>>
    /\ tracker_at_start = NewCostTracker
    /\ report = <<>>
    /\ aliased = FALSE
    /\ threshold_ret = <<>>
    /\ added = <<>>
    /\ alerted = FALSE

\* the locals of execute_full_chain are dropped when it returns or raises
ChainLocalsDropped ==
    /\ chain_stage' = 0
    /\ summary_output' = <<>>
    /\ topic_output' = <<>>
    /\ impact_output' = <<>>
    /\ total_input_tokens' = 0
    /\ total_output_tokens' = 0
    /\ total_processing_time_ms' = 0

\* a caller enters run_processing(articles, market_snapshot)
RunProcessing(arts) ==
    /\ proc_pc = "idle"
    /\ proc_pc' = "loop"
    /\ articles' = arts
    /\ proc_i' = 1
    /\ processed_articles' = <<>>
    /\ UNCHANGED << attempted, cost_tracker, chainVars, llm_calls, replies,
                    mapped, chain_outcome, succeeded, tracker_at_start >>
    /\ UNCHANGED << auditVars, added >>
    /\ UNCHANGED << gateVars, callerVars >>

\* run_processing: the loop takes the next article and enters
\* execute_full_chain, which zeroes its accumulators
ChainStart ==
    /\ proc_pc = "loop"
    /\ proc_i <= Len(articles)
    /\ proc_pc' = "chain"
    /\ attempted' = Append(attempted, articles[proc_i].article_id)
    /\ chain_stage' = 1
    /\ summary_output' = <<>>
    /\ topic_output' = <<>>
    /\ impact_output' = <<>>
    /\ total_input_tokens' = 0
    /\ total_output_tokens' = 0
    /\ total_processing_time_ms' = 0
    /\ llm_calls' = <<>>
    /\ replies' = <<>>
    /\ mapped' = <<>>
    /\ chain_outcome' = <<>>
    /\ tracker_at_start' = cost_tracker
    /\ UNCHANGED << articles, proc_i, processed_articles, cost_tracker,
                    succeeded >>
    /\ UNCHANGED << auditVars, added >>
    /\ UNCHANGED << gateVars, callerVars >>

\* ChainAbort that charges the tokens of the aborted chain to the tracker
ChainAbortCharging ==
    /\ proc_pc' = "loop"
    /\ proc_i' = proc_i + 1
    /\ ChainLocalsDropped
    /\ cost_tracker' =
         [cost_tracker EXCEPT
            !.total_input_tokens = @ + total_input_tokens,
            !.total_output_tokens = @ + total_output_tokens,
            !.total_cost_usd =
                @ + cost_usd(total_input_tokens, total_output_tokens)]
    /\ UNCHANGED << articles, processed_articles, added >>

\* ChainAbort that leaves the loop instead of continuing with the next article
ChainAbortBreaks ==
    /\ proc_pc' = "loop"
    /\ proc_i' = Len(articles) + 1
    /\ ChainLocalsDropped
    /\ UNCHANGED << articles, processed_articles, cost_tracker, added >>

\* ChainAbort that has the stage that raised invoked again
ChainAbortRetries ==
    /\ UNCHANGED << proc_pc, proc_i >>
    /\ UNCHANGED chainVars
    /\ UNCHANGED << articles, processed_articles, cost_tracker, added >>

\* A stage raised: execute_full_chain logs and re-raises, run_processing
\* catches the exception, logs and continues with the next article.
ChainAbort ==
    /\ proc_pc' = "loop"
    /\ proc_i' = proc_i + 1
    /\ ChainLocalsDropped
    /\ UNCHANGED << articles, processed_articles, cost_tracker, added >>

\* Stage 4 returned: execute_full_chain returns the ProcessedNews,
\* run_processing tracks its cost and appends it to processed_articles.
ChainComplete(processed) ==
    /\ proc_pc' = "loop"
    /\ proc_i' = proc_i + 1
    /\ ChainLocalsDropped
    /\ cost_tracker' = add_processed_article(cost_tracker, processed)
    /\ processed_articles' = Append(processed_articles, processed)
    /\ added' = Append(added, processed)
    /\ UNCHANGED articles

\* what every stage does with a reply: the call is made and the reply read
StageCalled(stage, reply) ==
    /\ proc_pc = "chain"
    /\ chain_stage = stage
    /\ llm_calls' = Append(llm_calls, stage)
    /\ replies' = Append(replies, reply)
    /\ UNCHANGED << attempted, tracker_at_start >>
    /\ UNCHANGED auditVars
    /\ UNCHANGED << gateVars, callerVars >>

\* the record of how the chain of the article in progress ended
Ended(stage, r) ==
    /\ chain_outcome' = << [article_id |-> articles[proc_i].article_id,
                            ok |-> r.ok, stage |-> stage, error |-> r.error] >>
    /\ succeeded' = IF r.ok THEN Append(succeeded, articles[proc_i].article_id)
                            ELSE succeeded

\* StageReturned that keeps the token counts of the latest stage only
StageReturnedOverwrites(stage, r) ==
    /\ chain_stage' = stage + 1
    /\ total_input_tokens' = r.in_tok
    /\ total_output_tokens' = r.out_tok
    /\ total_processing_time_ms' = r.proc_time
    /\ UNCHANGED << proc_pc, articles, proc_i, processed_articles,
                    cost_tracker, chain_outcome, succeeded, added >>

\* the stage returned: its token counts are added, the next stage follows
StageReturned(stage, r) ==
    /\ chain_stage' = stage + 1
    /\ total_input_tokens' = total_input_tokens + r.in_tok
    /\ total_output_tokens' = total_output_tokens + r.out_tok
    /\ total_processing_time_ms' = total_processing_time_ms + r.proc_time
    /\ UNCHANGED << proc_pc, articles, proc_i, processed_articles,
                    cost_tracker, chain_outcome, succeeded, added >>

\* execute_full_chain, step 1
Step1(reply) ==
    /\ StageCalled(1, reply)
    /\ UNCHANGED mapped
    /\ LET r == execute_step_1(reply)
       IN  IF r.ok
             THEN /\ StageReturned(1, r.value[1])
                  /\ summary_output' = << r.value[1].output >>
                  /\ UNCHANGED << topic_output, impact_output >>
             ELSE ChainAbort /\ Ended(1, r)

\* execute_full_chain, step 2
Step2(reply) ==
    /\ StageCalled(2, reply)
    /\ UNCHANGED mapped
    /\ LET r == execute_step_2(reply)
       IN  IF r.ok
             THEN /\ StageReturned(2, r.value[1])
                  /\ topic_output' = << r.value[1].output >>
                  /\ UNCHANGED << summary_output, impact_output >>
             ELSE ChainAbort /\ Ended(2, r)

\* execute_full_chain, step 3
Step3(reply) ==
    /\ StageCalled(3, reply)
    /\ UNCHANGED mapped
    /\ LET r == execute_step_3(reply)
       IN  IF r.ok
             THEN /\ StageReturned(3, r.value[1])
                  /\ impact_output' = << r.value[1].output >>
                  /\ UNCHANGED << summary_output, topic_output >>
             ELSE ChainAbort /\ Ended(3, r)

\* execute_full_chain, step 4 and the construction of the ProcessedNews
Step4(reply) ==
    /\ StageCalled(4, reply)
    /\ mapped' = mapped \o MappedScores(reply)
    /\ LET r == execute_step_4(reply)
       IN  /\ Ended(4, r)
           /\ IF r.ok
             THEN ChainComplete(
                    ProcessedNews(articles[proc_i],
                                  total_input_tokens + r.value[1].in_tok,
                                  total_output_tokens + r.value[1].out_tok,
                                  total_processing_time_ms
                                      + r.value[1].proc_time,
                                  summary_output[1], topic_output[1],
                                  impact_output[1], r.value[1].output))
             ELSE ChainAbort

\* run_processing: the loop is exhausted; the report is generated, the
\* threshold is checked (its result is dropped) and processed_articles is
\* returned
ProcessingReturn ==
    /\ proc_pc = "loop"
    /\ proc_i > Len(articles)
    /\ proc_pc' = "done"
    /\ report' = << generate_report(cost_tracker, <<>>, now) >>
    /\ aliased' = FALSE    \* cost_report is a local, dropped at the return
    /\ LET exceeded ==
               check_cost_threshold(cost_tracker, daily_cost_threshold_usd)
       IN  IF enable_cost_alerts
             THEN /\ threshold_ret' =
                        << [threshold_usd |-> daily_cost_threshold_usd,
                            total_cost_usd |-> cost_tracker.total_cost_usd,
                            exceeded |-> exceeded] >>
                  /\ alerted' = (alerted \/ exceeded)
             ELSE UNCHANGED << threshold_ret, alerted >>
    /\ UNCHANGED << articles, proc_i, processed_articles, attempted,
                    cost_tracker, chainVars, llm_calls, replies, mapped,
                    chain_outcome, succeeded, tracker_at_start, added >>
    /\ UNCHANGED << gateVars, callerVars >>

(***************************************************************************)
(* The CostTracker called directly (src/pipeline/cost_tracker.py).         *)
(***************************************************************************)
\* what the tracker operations leave alone
TrackerFrame ==
    /\ UNCHANGED << proc_pc, articles, proc_i, processed_articles, attempted,
                    chainVars, llm_calls, replies, mapped, chain_outcome,
                    succeeded, tracker_at_start >>
    /\ UNCHANGED << gateVars, callerVars >>

\* cost_tracker.add_processed_article(processed)
TrackerAdd(processed) ==
    /\ Len(cost_tracker.article_costs) < MaxRecords
    /\ cost_tracker' = add_processed_article(cost_tracker, processed)
    /\ added' = Append(added, processed)
    /\ report' = ReportRead(report, aliased, cost_tracker')
    /\ UNCHANGED << aliased, threshold_ret, alerted >>
    /\ TrackerFrame

\* cost_tracker.generate_report(date)
TrackerGenerateReport(date) ==
    /\ LET r == generate_report(cost_tracker, date, now)
       IN  /\ report' = << r >>
           /\ aliased' = ShareLedger(cost_tracker)
    /\ UNCHANGED << cost_tracker, threshold_ret, added, alerted >>
    /\ TrackerFrame

\* cost_tracker.check_cost_threshold(threshold_usd)
TrackerCheckThreshold(threshold_usd) ==
    /\ LET exceeded == check_cost_threshold(cost_tracker, threshold_usd)
       IN  /\ threshold_ret' =
                  << [threshold_usd |-> threshold_usd,
                      total_cost_usd |-> cost_tracker.total_cost_usd,
                      exceeded |-> exceeded] >>
           /\ alerted' = (alerted \/ exceeded)
    /\ UNCHANGED << cost_tracker, report, aliased, added >>
    /\ TrackerFrame

\* cost_tracker.reset()
TrackerReset ==
    /\ cost_tracker' = reset(cost_tracker)
    /\ added' = <<>>
    /\ aliased' = FALSE    \* self.article_costs is bound to a new list
    /\ UNCHANGED << report, threshold_ret, alerted >>
    /\ TrackerFrame

(***************************************************************************)
(* Inputs.                                                                 *)
(***************************************************************************)
\* what one call consumes: (input tokens, output tokens, elapsed ms)
TokenUsages == { << i, MaxTok + 1 - i, i >> : i \in 1..MaxTok }

Opt(S) == { <<>> } \cup { << v >> : v \in S }

SummarySamples ==
    { <<>>, Blank(3), X(MIN_SUMMARY_LENGTH - 1), Pad(X(MIN_SUMMARY_LENGTH - 1)),
      X(MIN_SUMMARY_LENGTH), Pad(X(MIN_SUMMARY_LENGTH)) }

TopicLists ==
    { <<>>, << "economy" >>, << "sports" >>, << "Economy" >>, << "other" >>,
      << "sports", "economy" >>, << "energy", "sports", "economy" >> }

TopicsSamples ==
    { [type |-> "absent", items |-> <<>>], [type |-> "null", items |-> <<>>] }
    \cup { [type |-> "list", items |-> l] : l \in TopicLists }

JustificationSamples ==
    { X(MIN_JUSTIFICATION_LENGTH - 1), Pad(X(MIN_JUSTIFICATION_LENGTH)) }

\* the parsed responses of each stage, every field present or absent
Stage1Jsons == { [summary |-> s] : s \in Opt(SummarySamples) }

Stage2Jsons ==
    { [topics |-> t, confidence |-> c] :
        t \in TopicsSamples, c \in Opt({80, 150}) }

Stage3Jsons ==
    { [direction |-> d, mechanisms |-> m, time_horizon |-> h] :
        d \in Opt({"POSITIVE", "UP"}),
        m \in Opt({ <<>>, << "oil" >> }),
        h \in Opt({"short-term", "immediate"}) }

Stage4Jsons ==
    { [score |-> n, category |-> c, trader_action |-> a, justification |-> j] :
        n \in Opt(0..6),
        c \in Opt({"Critical", "Irrelevant", "bogus"}),
        a \in Opt({"urgent", "bogus"}),
        j \in Opt(JustificationSamples) }

StageJsons(stage) ==
    CASE stage = 1 -> Stage1Jsons
      [] stage = 2 -> Stage2Jsons
      [] stage = 3 -> Stage3Jsons
      [] stage = 4 -> Stage4Jsons

FailedReplies == { FailedReply("TransportError"), FailedReply("JSONDecodeError") }

\* every reply to a stage, with one token usage
Replies(stage) ==
    FailedReplies \cup { Reply(j, 1, MaxTok, 1) : j \in StageJsons(stage) }

\* one valid and one invalid response per stage, with every token usage
FewJsons(stage) ==
    CASE stage = 1 -> { [summary |-> << Pad(X(MIN_SUMMARY_LENGTH)) >>],
                        [summary |-> <<>>] }
      [] stage = 2 -> { [topics |-> [type |-> "list", items |-> << "economy" >>],
                         confidence |-> <<>>],
                        [topics |-> [type |-> "list", items |-> << "economy" >>],
                         confidence |-> << 150 >>] }
      [] stage = 3 -> { [direction |-> << "POSITIVE" >>,
                         mechanisms |-> << << "oil" >> >>,
                         time_horizon |-> <<>>],
                        [direction |-> << "POSITIVE" >>, mechanisms |-> <<>>,
                         time_horizon |-> <<>>] }
      [] stage = 4 -> { [score |-> << n >>, category |-> <<>>,
                         trader_action |-> <<>>,
                         justification |-> << X(MIN_JUSTIFICATION_LENGTH) >>] :
                        n \in {5, 6} }

FewReplies(stage) ==
    FailedReplies
    \cup { Reply(j, u[1], u[2], u[3]) :
             j \in FewJsons(stage), u \in TokenUsages }

Reverse(s) == [i \in 1..Len(s) |-> s[Len(s) + 1 - i]]

\* the article lists run_processing is called with
ArticleLists ==
    UNION { { SubSeq(ArticlePool, 1, n), Reverse(SubSeq(ArticlePool, 1, n)) } :
            n \in 0..MaxArticles }

\* the ProcessedNews handed to the tracker: one per usage, each of another
\* article and with another score
ProcessedSamples ==
    { ProcessedNews(ArticlePool[u[1]], u[1], u[2], u[3],
                    [summary |-> X(MIN_SUMMARY_LENGTH)],
                    [topics |-> << "other" >>, confidence |-> DEFAULT_CONFIDENCE],
                    [direction |-> "NEUTRAL", mechanisms |-> << "oil" >>,
                     time_horizon |-> "medium-term"],
                    [score |-> u[1], category |-> score_to_category(u[1]),
                     justification |-> X(MIN_JUSTIFICATION_LENGTH),
                     trader_action |-> score_to_trader_action(u[1])]) :
      u \in TokenUsages }

\* the limits check_cost_threshold is called with: nothing, the cost of the
\* first sample, the cost of all samples together
ThresholdSamples ==
    {0, cost_usd(1, MaxTok)}
        \cup { SumOf([i \in 1..MaxTok |->
                        cost_usd(i, MaxTok + 1 - i)]) }

\* the date argument of generate_report: None or a day
ReportDates == { <<>>, << 1 >> }

(***************************************************************************)
(* add_processed_article statement by statement, as workers that share one *)
(* tracker execute it.  self.x += v loads self.x, adds v and stores the    *)
(* sum; nothing in the method keeps another worker from running between    *)
(* the load and the store.  list.append is one step.                       *)
(***************************************************************************)
\* the totals in the order add_processed_article updates them
TotalFields ==
    << "total_input_tokens", "total_output_tokens", "total_cost_usd" >>

\* the locals input_tokens, output_tokens and cost_usd of the method
Amount(processed, k) ==
    CASE k = 1 -> processed.input_tokens
      [] k = 2 -> processed.output_tokens
      [] k = 3 -> cost_usd(processed.input_tokens, processed.output_tokens)

\* self.x = v instead of self.x += v
AccumulateAssigns(loaded, amount) == amount

\* self.x += v: what is stored, given what was loaded
Accumulate(loaded, amount) == loaded + amount

WorkerFrame ==
    /\ UNCHANGED << proc_pc, articles, proc_i, processed_articles, attempted,
                    chainVars, llm_calls, replies, mapped, chain_outcome,
                    succeeded, tracker_at_start >>
    /\ UNCHANGED << gateVars, earlier, orchVars >>

\* worker w enters add_processed_article(processed)
WorkerCall(w, processed) ==
    LET busy == { v \in Workers : workers[v].pc # "idle" }
    IN  /\ workers[w].pc = "idle"
        /\ Len(cost_tracker.article_costs) + Cardinality(busy) < MaxRecords
        /\ workers' = [workers EXCEPT ![w] =
                           [pc |-> "load", k |-> 1,
                            processed |-> << processed >>, loaded |-> 0]]
        /\ overlapped' = (overlapped \/ busy # {})
        /\ UNCHANGED << cost_tracker, added, auditVars >>
        /\ WorkerFrame

\* self.<total> += ..., first half: the total is loaded
WorkerLoad(w) ==
    /\ workers[w].pc = "load"
    /\ workers' = [workers EXCEPT
                       ![w].pc = "store",
                       ![w].loaded = cost_tracker[TotalFields[workers[w].k]]]
    /\ UNCHANGED << cost_tracker, added, auditVars, overlapped >>
    /\ WorkerFrame

\* self.<total> += ..., second half: the sum is stored
WorkerStore(w) ==
    LET k == workers[w].k
    IN  /\ workers[w].pc = "store"
        /\ cost_tracker' =
               [cost_tracker EXCEPT ![TotalFields[k]] =
                   Accumulate(workers[w].loaded,
                              Amount(workers[w].processed[1], k))]
        /\ workers' = [workers EXCEPT
                           ![w].pc = IF k < Len(TotalFields) THEN "load"
                                                            ELSE "append",
                           ![w].k = IF k < Len(TotalFields) THEN k + 1 ELSE 0]
        /\ UNCHANGED << added, auditVars, overlapped >>
        /\ WorkerFrame

\* self.article_costs.append({...}), and the method returns
WorkerAppend(w) ==
    LET processed == workers[w].processed[1]
    IN  /\ workers[w].pc = "append"
        /\ cost_tracker' =
               [cost_tracker EXCEPT !.article_costs =
                   add_processed_article(cost_tracker, processed).article_costs]
        /\ added' = Append(added, processed)
        /\ report' = ReportRead(report, aliased, cost_tracker')
        /\ workers' = [workers EXCEPT ![w] = IdleWorker]
        /\ UNCHANGED << aliased, threshold_ret, alerted, overlapped >>
        /\ WorkerFrame

(***************************************************************************)
(* main and the phases of PipelineOrchestrator                             *)
(* (src/pipeline/orchestrator.py).  The constructor wires the gate         *)
(* pipeline; one command runs per process.  What the scrapers fetch is     *)
(* the next articles of ScrapedIds; the daily analysis of phase 4 only     *)
(* logs and is left out.                                                   *)
(***************************************************************************)
\* the gates PipelineOrchestrator.__init__ hands to GatePipeline
OrchestratorGates ==
    << "content_quality", "topic_relevance", "temporal_relevance" >>

\* scrape_cnn_colombia(max_articles): the next n articles of the site
Scrape(n) ==
    [i \in 1..n |-> ArticlePool[ScrapedIds[Len(corpus) + i]]]

\* how many articles a scrape can fetch
ScrapeSizes == 0..Min(MaxCorpus, Len(ScrapedIds)) - Len(corpus)

OrchFrame ==
    /\ UNCHANGED procVars
    /\ UNCHANGED << earlier, workerVars >>

\* the gate pipeline is left as it is, but for the corpus
GatesUntouched ==
    UNCHANGED << gates, now, ticks, gate_pc, gate_mode, gate_article, gate_i,
                 results, all_passed, checked, gate_ret,
                 storage_faults, lookups, evaluated >>

\* main returns code
Exit(code) ==
    /\ orch_pc' = "exit"
    /\ exit_code' = << code >>

\* run_gates(articles) is entered
RunGatesEntered(arts) ==
    /\ orch_pc' = "gates"
    /\ main_articles' = arts
    /\ gate_n' = 1
    /\ passed_articles' = <<>>
    /\ all_gate_results' = <<>>

\* command scrape: run_scraping writes what it fetched, main returns 0
MainScrape(n) ==
    /\ orch_pc = "start"
    /\ gate_pc = "idle"
    /\ command' = "scrape"
    /\ corpus' = corpus \o Scrape(n)
    /\ Exit(0)
    /\ UNCHANGED << main_articles, gate_n, passed_articles,
                    all_gate_results, start_time, stats >>
    /\ GatesUntouched
    /\ OrchFrame

\* command gate: the articles are read from the storage; with none main
\* returns 1, else run_gates is entered
MainGate ==
    /\ orch_pc = "start"
    /\ gate_pc = "idle"
    /\ command' = "gate"
    /\ IF corpus = <<>>
         THEN /\ Exit(1)
              /\ UNCHANGED << main_articles, gate_n, passed_articles,
                              all_gate_results >>
         ELSE /\ RunGatesEntered(corpus)
              /\ UNCHANGED exit_code
    /\ UNCHANGED << corpus, start_time, stats >>
    /\ GatesUntouched
    /\ OrchFrame

\* command process: the articles and the market snapshot are read from the
\* storage; without articles or snapshot main returns 1, else
\* run_processing is called with the articles as they were read
MainProcess(snapshot_found) ==
    /\ orch_pc = "start"
    /\ gate_pc = "idle"
    /\ command' = "process"
    /\ IF corpus = <<>> \/ ~ snapshot_found
         THEN /\ Exit(1)
              /\ UNCHANGED main_articles
         ELSE /\ orch_pc' = "processing"
              /\ main_articles' = corpus
              /\ UNCHANGED exit_code
    /\ UNCHANGED << corpus, gate_n, passed_articles, all_gate_results,
                    start_time, stats >>
    /\ GatesUntouched
    /\ OrchFrame

\* command full: run_full_pipeline takes the time, run_scraping writes
\* what it fetched; with nothing fetched the pipeline returns, else
\* run_gates is entered
MainFull(n) ==
    /\ orch_pc = "start"
    /\ gate_pc = "idle"
    /\ command' = "full"
    /\ start_time' = now
    /\ corpus' = corpus \o Scrape(n)
    /\ IF Scrape(n) = <<>>
         THEN /\ stats' = << [success |-> FALSE,
                              error |-> "No articles scraped"] >>
              /\ Exit(1)
              /\ UNCHANGED << main_articles, gate_n, passed_articles,
                              all_gate_results >>
         ELSE /\ RunGatesEntered(Scrape(n))
              /\ UNCHANGED << stats, exit_code >>
    /\ GatesUntouched
    /\ OrchFrame

\* run_gates: the loop takes the next article and calls gate_pipeline.run
RunGatesCall ==
    /\ orch_pc = "gates"
    /\ gate_pc = "idle"
    /\ gate_n <= Len(main_articles)
    /\ GateCall("run", main_articles[gate_n])

\* run_gates: gate_pipeline.run has returned; the results are collected
\* and the article is kept if it passed
RunGatesCollect ==
    /\ orch_pc = "gates"
    /\ gate_pc = "returned"
    /\ gate_pc' = "idle"
    /\ all_gate_results' = all_gate_results \o gate_ret[1].results
    /\ passed_articles' =
           IF gate_ret[1].passed
             THEN Append(passed_articles, main_articles[gate_n])
             ELSE passed_articles
    /\ gate_n' = gate_n + 1
    /\ UNCHANGED << orch_pc, command, main_articles, start_time, stats,
                    exit_code >>
    /\ UNCHANGED << gates, now, ticks, gate_mode, gate_article, gate_i,
                    results, all_passed, checked, gate_ret, storageVars,
                    lookups, evaluated >>
    /\ OrchFrame

\* run_gates returns.  Command gate: main returns 0.  Command full: with no
\* article passed the pipeline returns, else run_processing is next.
RunGatesReturn ==
    /\ orch_pc = "gates"
    /\ gate_pc = "idle"
    /\ gate_n > Len(main_articles)
    /\ CASE command = "gate" -> Exit(0) /\ UNCHANGED stats
         [] command = "full" /\ passed_articles = <<>> ->
                /\ stats' = << [success |-> FALSE,
                                error |-> "No articles passed gates",
                                articles_scraped |-> Len(main_articles),
                                articles_passed_gates |-> 0] >>
                /\ Exit(1)
         [] command = "full" /\ passed_articles # <<>> ->
                /\ orch_pc' = "processing"
                /\ UNCHANGED << stats, exit_code >>
    /\ UNCHANGED << command, main_articles, gate_n, passed_articles,
                    all_gate_results, start_time >>
    /\ UNCHANGED gateVars
    /\ OrchFrame

\* run_processing is called: with the articles that passed by
\* run_full_pipeline, with the articles read by the command process
RunProcessingCall ==
    /\ orch_pc = "processing"
    /\ RunProcessing(IF command = "full" THEN passed_articles
                                         ELSE main_articles)

\* run_processing has returned.  Command process: main returns 0.  Command
\* full: the statistics are computed and returned, main returns 0.
MainReturn ==
    /\ orch_pc = "processing"
    /\ proc_pc = "done"
    /\ IF command = "full"
         THEN stats' =
                << [success |-> TRUE,
                    duration_seconds |-> now - start_time,
                    articles_scraped |-> Len(main_articles),
                    articles_passed_gates |-> Len(passed_articles),
                    articles_processed |-> Len(processed_articles),
                    articles_failed_processing |->
                        Len(passed_articles) - Len(processed_articles),
                    gate_pass_rate |->
                        IF main_articles # <<>>
                          THEN Ratio(Len(passed_articles), Len(main_articles))
                          ELSE Ratio(0, 1),
                    total_cost_usd |-> cost_tracker.total_cost_usd,
                    avg_cost_per_article |->
                        get_average_cost_per_article(cost_tracker).value[1],
                    total_tokens |-> get_total_tokens(cost_tracker)] >>
         ELSE UNCHANGED stats
    /\ Exit(0)
    /\ UNCHANGED << command, main_articles, gate_n, passed_articles,
                    all_gate_results, start_time >>
    /\ UNCHANGED gateVars
    /\ OrchFrame

(***************************************************************************)
(* Specifications.                                                         *)
(***************************************************************************)
Init == GateInit /\ ProcInit /\ CallerInit

\* the gate pipeline, called on any article in either mode at any time
GateNext ==
    \/ \E gs \in GateConfigs : GatePipelineNew(gs)
    \/ Tick
    \/ WriteRawNews
    \/ \E faults \in SUBSET StorageLookups : StorageFaultsChange(faults)
    \/ \E mode \in {"run", "run_all"}, id \in ArticleIds :
           GateCall(mode, ArticlePool[id])
    \/ RunIteration
    \/ RunReturn
    \/ RunAllIteration
    \/ RunAllReturn

SpecGates == Init /\ [][GateNext]_vars

\* one article through the chain, under every reply of the collaborator
ChainNext ==
    \/ RunProcessing(<< ArticlePool[1] >>)
    \/ ChainStart
    \/ \E reply \in Replies(1) : Step1(reply)
    \/ \E reply \in Replies(2) : Step2(reply)
    \/ \E reply \in Replies(3) : Step3(reply)
    \/ \E reply \in Replies(4) : Step4(reply)
    \/ ProcessingReturn

SpecChain == Init /\ [][ChainNext]_vars

\* run_processing over a list of articles
ProcNext ==
    \/ \E arts \in ArticleLists : RunProcessing(arts)
    \/ ChainStart
    \/ \E reply \in FewReplies(1) : Step1(reply)
    \/ \E reply \in FewReplies(2) : Step2(reply)
    \/ \E reply \in FewReplies(3) : Step3(reply)
    \/ \E reply \in FewReplies(4) : Step4(reply)
    \/ ProcessingReturn

SpecProcessing == Init /\ [][ProcNext]_vars

\* the cost tracker under any sequence of calls
TrackerNext ==
    \/ \E processed \in ProcessedSamples : TrackerAdd(processed)
    \/ \E date \in ReportDates : TrackerGenerateReport(date)
    \/ \E threshold_usd \in ThresholdSamples :
           TrackerCheckThreshold(threshold_usd)
    \/ TrackerReset

SpecTracker == Init /\ [][TrackerNext]_vars

\* workers that call add_processed_article on the tracker they share, one
\* after the other or at the same time
WorkersNext ==
    \/ \E w \in Workers, processed \in ProcessedSamples :
           WorkerCall(w, processed)
    \/ \E w \in Workers : WorkerLoad(w)
    \/ \E w \in Workers : WorkerStore(w)
    \/ \E w \in Workers : WorkerAppend(w)

SpecWorkers == Init /\ [][WorkersNext]_vars

\* one process: the orchestrator is constructed and main runs one command,
\* on a partition that earlier processes may have written, while the clock
\* advances
PipelineNext ==
    \/ GatePipelineNew(OrchestratorGates)
    \/ Tick
    \/ orch_pc = "start" /\ WriteRawNews
    \/ \E n \in ScrapeSizes : MainScrape(n)
    \/ MainGate
    \/ \E snapshot_found \in BOOLEAN : MainProcess(snapshot_found)
    \/ \E n \in ScrapeSizes : MainFull(n)
    \/ RunGatesCall
    \/ RunIteration
    \/ RunReturn
    \/ RunGatesCollect
    \/ RunGatesReturn
    \/ RunProcessingCall
    \/ ChainStart
    \/ \E reply \in FewReplies(1) : Step1(reply)
    \/ \E reply \in FewReplies(2) : Step2(reply)
    \/ \E reply \in FewReplies(3) : Step3(reply)
    \/ \E reply \in FewReplies(4) : Step4(reply)
    \/ ProcessingReturn
    \/ MainReturn

SpecPipeline == Init /\ [][PipelineNext]_vars

\* Articles for the content-quality gate alone: every combination of a body
\* length (empty, short, minimal, ordinary, maximal, too long), a count of
\* language markers among the words of the body (none for a body without
\* words, few, exactly the required ratio, many) and a title blank or not.
\* A blank title is that of article 5, another that of article 1.
QualityArticles ==
    { Article(IF titleBlank THEN 5 ELSE 1, len, sw[1], sw[2], titleBlank,
              {}, <<>>, 0) :
          len \in {150, MIN_CONTENT_LENGTH, 300, MAX_CONTENT_LENGTH,
                   MAX_CONTENT_LENGTH + 1},
          sw \in { <<0, 0>>, <<2, 25>>, <<15, 50>>, <<40, 50>> },
          titleBlank \in BOOLEAN }
    \cup { Article(IF titleBlank THEN 5 ELSE 1, 0, 0, 0, titleBlank,
                   {}, <<>>, 0) : titleBlank \in BOOLEAN }

\* the content-quality gate alone, in both modes of the pipeline
QualityNext ==
    \/ GatePipelineNew(<< "content_quality" >>)
    \/ \E mode \in {"run", "run_all"}, article \in QualityArticles :
           GateCall(mode, article)
    \/ RunIteration
    \/ RunReturn
    \/ RunAllIteration
    \/ RunAllReturn

SpecQuality == Init /\ [][QualityNext]_vars

\* the gate pipeline called in one mode and then in the other on the same
\* article, while the clock advances, the corpus grows and its reads fail
AgreeConfigs ==
    { << "topic_relevance", "temporal_relevance" >>,
      << "content_quality", "temporal_relevance", "topic_relevance",
         "duplicate_detection" >> }

AgreeNext ==
    \/ \E gs \in AgreeConfigs : GatePipelineNew(gs)
    \/ Tick
    \/ WriteRawNews
    \/ \E faults \in {{}, StorageLookups} : StorageFaultsChange(faults)
    \/ \E mode \in {"run", "run_all"}, id \in ArticleIds :
           gate_pc = "idle" /\ GateCall(mode, ArticlePool[id])
    \/ \E mode \in {"run", "run_all"} : GateCallAgain(mode)
    \/ RunIteration
    \/ RunReturn
    \/ RunAllIteration
    \/ RunAllReturn

SpecAgree == Init /\ [][AgreeNext]_vars

(***************************************************************************)
(* Properties of the gate pipeline, under SpecGates.                       *)
(***************************************************************************)
GateNames(rs) == [j \in 1..Len(rs) |-> rs[j].gate_name]

\* results rs are those of the first Len(rs) configured gates, in order,
\* each for the article of the call
ResultsOfPrefix(rs) ==
    /\ Len(rs) <= Len(gates)
    /\ GateNames(rs) = SubSeq(gates, 1, Len(rs))
    /\ \A j \in 1..Len(rs) :
         /\ rs[j].article_id = gate_article[1].article_id
         /\ gates[j] \in {"content_quality", "topic_relevance"} =>
                rs[j] = GateCheck(gates[j], gate_article[1], now)

\* C1: GatePipeline.run is fail-fast.  While run is in its loop every result
\* so far passed; when it returns passed=false, the k results it returns are
\* those of gates 1..k in configured order, result k is the only failure,
\* and the checks invoked for the article are exactly those of gates 1..k:
\* no gate after k is invoked, then or later.
C1_FailFast ==
    gate_mode = "run" /\ gate_pc \in {"loop", "returned"} =>
        /\ ResultsOfPrefix(results)
        /\ checked = SubSeq(gates, 1, Len(results))
        /\ gate_pc = "loop" =>
             /\ gate_i = Len(results) + 1
             /\ \A j \in 1..Len(results) : results[j].passed
        /\ gate_pc = "returned" =>
             LET ret == gate_ret[1]
                 k == Len(ret.results)
             IN  /\ ret.results = results
                 /\ \A j \in 1..(k - 1) : ret.results[j].passed
                 /\ ret.passed <=> (k = Len(gates) /\
                                    \A j \in 1..k : ret.results[j].passed)
                 /\ ~ ret.passed => k >= 1 /\ ~ ret.results[k].passed

\* C1 witness: run returned passed=false at gate k = 2 of three gates
C1_Witness ==
    /\ gate_mode = "run"
    /\ gate_pc = "returned"
    /\ ~ gate_ret[1].passed
    /\ Len(gate_ret[1].results) = 2
    /\ Len(gates) = 3
    /\ checked = SubSeq(gates, 1, 2)

\* C2: run_all_gates invokes every configured gate exactly once in configured
\* order whatever the earlier outcomes, returns one result per configured
\* gate, and returns all_passed=true iff every one of those results passed.
C2_RunAll ==
    gate_mode = "run_all" /\ gate_pc \in {"loop", "returned"} =>
        /\ ResultsOfPrefix(results)
        /\ checked = SubSeq(gates, 1, Len(results))
        /\ gate_pc = "loop" => gate_i = Len(results) + 1
        /\ gate_pc = "returned" =>
             LET ret == gate_ret[1]
             IN  /\ ret.results = results
                 /\ checked = gates
                 /\ Len(ret.results) = Len(gates)
                 /\ ret.passed <=>
                        \A j \in 1..Len(gates) : ret.results[j].passed

\* C2 witness: run_all_gates returned three results of which the first failed
\* and the last passed
C2_Witness ==
    /\ gate_mode = "run_all"
    /\ gate_pc = "returned"
    /\ Len(gate_ret[1].results) = 3
    /\ ~ gate_ret[1].results[1].passed
    /\ gate_ret[1].results[3].passed
    /\ ~ gate_ret[1].passed

(***************************************************************************)
(* Properties of the chain for one article, under SpecChain.               *)
(***************************************************************************)
\* the reply to stage k was a parsed response
Parsed(k) == Len(replies) >= k /\ replies[k].error = ""
Json(k) == replies[k].json[1]

\* the chain of the article last attempted ended, by returning or by raising
ChainOk == chain_outcome # <<>> /\ chain_outcome[1].ok
ChainFailedAt(k) ==
    chain_outcome # <<>> /\ ~ chain_outcome[1].ok /\ chain_outcome[1].stage = k

LastProcessed == processed_articles[Len(processed_articles)]

\* no ProcessedNews was emitted for the article last attempted, and the cost
\* tracker is as it was when the article was started
NothingEmitted ==
    /\ \A i \in 1..Len(processed_articles) :
           processed_articles[i].article_id # chain_outcome[1].article_id
    /\ Len(processed_articles) = Len(succeeded)
    /\ cost_tracker = tracker_at_start

\* the fixed tables of the specification
CategoryTable ==
    [n \in 1..5 |-> CASE n = 1 -> "Irrelevant" [] n = 2 -> "Low"
                      [] n = 3 -> "Moderate" [] n = 4 -> "High"
                      [] n = 5 -> "Critical"]
ActionTable ==
    [n \in 1..5 |-> CASE n \in {1, 2} -> "monitor" [] n \in {3, 4} -> "alert"
                      [] n = 5 -> "urgent"]

\* C3: every ProcessedNews emitted by execute_full_chain has a ranking score
\* in 1..5, the category the table gives for that score and the trader action
\* the table gives for that score.
C3_ScoreTables ==
    \A i \in 1..Len(processed_articles) :
        LET p == processed_articles[i]
        IN  /\ p.ranking_score \in 1..5
            /\ p.ranking_category = CategoryTable[p.ranking_score]
            /\ p.ranking_trader_action = ActionTable[p.ranking_score]

\* C3 witness: an article was emitted with the score 3 its response declared
C3_Witness ==
    /\ ChainOk
    /\ Parsed(4)
    /\ Json(4).score = << 3 >>
    /\ LastProcessed.ranking_score = 3
    /\ LastProcessed.ranking_category = "Moderate"
    /\ LastProcessed.ranking_trader_action = "alert"

\* C4 as claimed: the score-to-category and score-to-action mappings are
\* never evaluated on a score outside [1,5].
C4_MapperNeverOutOfRange ==
    \A i \in 1..Len(mapped) : mapped[i] \in 1..5

\* C4 as amended: a parsed stage-4 response whose score lies outside [1,5] is
\* rejected by the validation of RankingOutput, which runs after the two
\* mappings were evaluated on that score; the chain aborts at stage 4 and no
\* ProcessedNews is emitted for the article.
C4_OutOfRangeRejected ==
    Parsed(4) /\ Json(4).score # <<>> /\ Json(4).score[1] \notin 1..5 =>
        /\ mapped = Json(4).score
        /\ ChainFailedAt(4)
        /\ chain_outcome[1].error = "ValidationError"
        /\ NothingEmitted

\* C4 witness: a response with score 6 and an acceptable justification was
\* mapped and the chain aborted
C4_Witness ==
    /\ Parsed(4)
    /\ Json(4).score = << 6 >>
    /\ Json(4).justification = << Pad(X(MIN_JUSTIFICATION_LENGTH)) >>
    /\ mapped = << 6 >>
    /\ ChainFailedAt(4)

\* the declared category and trader action fields a response may carry
DeclaredCategories == Opt(RankingCategory \cup {"bogus"})
DeclaredActions == Opt(TraderAction \cup {"bogus"})

OtherFieldsValid3 ==
    /\ Get(Json(3).mechanisms, <<>>) # <<>>
    /\ Get(Json(3).time_horizon, "medium-term") \in TimeHorizon
OtherFieldsValid4 ==
    /\ Json(4).justification # <<>>
    /\ Len(Strip(Json(4).justification[1])) >= MIN_JUSTIFICATION_LENGTH

C9_ShortSummaryAborts ==
    Parsed(1) /\ (LET v == Get(Json(1).summary, <<>>)
                  IN  v = <<>> \/ Len(Strip(v)) < MIN_SUMMARY_LENGTH) =>
        /\ ChainFailedAt(1)
        /\ llm_calls = << 1 >>
        /\ NothingEmitted

\* C9 witness: a summary of 11 characters, 9 after trimming, aborted the chain
C9_Witness ==
    /\ Parsed(1)
    /\ Json(1).summary = << Pad(X(MIN_SUMMARY_LENGTH - 1)) >>
    /\ ChainFailedAt(1)
    /\ llm_calls = << 1 >>

Range(f) == { f[i] : i \in DOMAIN f }

\* the topics stage 2 returned for the article last attempted, while they exist
TopicsOut ==
    IF topic_output # <<>> THEN << topic_output[1].topics >>
    ELSE IF ChainOk THEN << LastProcessed.topics >>
    ELSE <<>>

\* C10: in stage 2, a response whose topics are absent or a list does not fail
\* the stage because of values outside TopicCategory (with a valid confidence
\* the stage returns); the topics returned are never empty, are the declared
\* values that are members of TopicCategory when there is one, and are exactly
\* <<"other">> when there is none.
C10_TopicsDropAndDefault ==
    Parsed(2) /\ Json(2).topics.type # "null" =>
        LET declared == Range(Json(2).topics.items)
            recognized == declared \cap TopicCategory
        IN  /\ Get(Json(2).confidence, DEFAULT_CONFIDENCE) \in 0..100 =>
                 ~ ChainFailedAt(2)
            /\ TopicsOut # <<>> =>
                 LET out == TopicsOut[1]
                 IN  /\ out # <<>>
                     /\ Range(out) \subseteq TopicCategory
                     /\ recognized # {} => Range(out) = recognized
                     /\ recognized = {} => out = << "other" >>

\* C10 witness: of the declared energy, sports, economy the stage kept energy
\* and economy
C10_Witness ==
    /\ Parsed(2)
    /\ Json(2).topics.items = << "energy", "sports", "economy" >>
    /\ topic_output # <<>>
    /\ topic_output[1].topics = << "energy", "economy" >>

(***************************************************************************)
(* Properties of run_processing, under SpecProcessing.                     *)
(***************************************************************************)
IdsOf(as) == [i \in 1..Len(as) |-> as[i].article_id]

\* C6: the chain is all-or-nothing per article.  While the chain of an article
\* is in progress, and after it failed at any stage, the cost tracker's token
\* totals, cost total and records are those of before the article was started
\* and no ProcessedNews exists for the article.
C6_AllOrNothing ==
    /\ proc_pc = "chain" =>
         /\ cost_tracker = tracker_at_start
         /\ Len(processed_articles) = Len(succeeded)
    /\ chain_outcome # <<>> /\ ~ chain_outcome[1].ok =>
         /\ chain_outcome[1].stage \in 1..4
         /\ NothingEmitted

\* C6 witness: after one article was tracked, the next failed at stage 2 with
\* a ValidationError, having consumed the tokens of two calls
C6_Witness ==
    /\ ChainFailedAt(2)
    /\ chain_outcome[1].error = "ValidationError"
    /\ Len(llm_calls) = 2
    /\ Len(tracker_at_start.article_costs) = 1
    /\ cost_tracker.total_input_tokens > 0

\* C7: chain failures are isolated per article.  The articles are attempted
\* once each in list order whatever failed before, and the list returned holds
\* exactly the articles whose chain returned, in input order.
C7_FailureIsolation ==
    proc_pc # "idle" =>
        /\ attempted = SubSeq(IdsOf(articles), 1,
                              IF proc_pc = "chain" THEN proc_i ELSE proc_i - 1)
        /\ IdsOf(processed_articles) = succeeded
        /\ proc_pc = "done" => attempted = IdsOf(articles)

\* C7 witness: of two articles the first failed and the second was returned
C7_Witness ==
    /\ proc_pc = "done"
    /\ Len(articles) = 2
    /\ attempted = IdsOf(articles)
    /\ IdsOf(processed_articles) = << articles[2].article_id >>

\* the sum of the numbers of a sequence
RECURSIVE SumSeq(_)
SumSeq(ns) == IF ns = <<>> THEN 0 ELSE Head(ns) + SumSeq(Tail(ns))

\* C11: the token counts of an emitted ProcessedNews are the sums over the
\* four stages.  The chain that returned called the collaborator once per
\* stage, in the order 1, 2, 3, 4; input_tokens is the sum of the four input
\* token counts the collaborator returned and output_tokens the sum of the
\* four output token counts.
C11_TokenSums ==
    ChainOk =>
        /\ llm_calls = << 1, 2, 3, 4 >>
        /\ Len(replies) = 4
        /\ LastProcessed.input_tokens =
               SumSeq([k \in 1..4 |-> replies[k].input_tokens])
        /\ LastProcessed.output_tokens =
               SumSeq([k \in 1..4 |-> replies[k].output_tokens])

\* C11 witness: an article was emitted whose four calls did not all report
\* the same token counts
C11_Witness ==
    /\ ChainOk
    /\ replies[1].input_tokens # replies[2].input_tokens
    /\ replies[3].output_tokens # replies[4].output_tokens
    /\ LastProcessed.input_tokens =
           replies[1].input_tokens + replies[2].input_tokens
           + replies[3].input_tokens + replies[4].input_tokens

(***************************************************************************)
(* Properties of the cost tracker, under SpecTracker.                      *)
(***************************************************************************)
\* the values of one field over the cost records
FieldOf(records, field) == [i \in DOMAIN records |-> records[i][field]]

\* C12: after any sequence of add_processed_article, generate_report,
\* check_cost_threshold and reset, the tracker's total input tokens, total
\* output tokens and total cost are the sums of those fields over its cost
\* records, and the records are one per article added since the last reset,
\* in the order of the additions.
C12_TotalsAreSums ==
    LET records == cost_tracker.article_costs
    IN  /\ cost_tracker.total_input_tokens =
               SumSeq(FieldOf(records, "input_tokens"))
        /\ cost_tracker.total_output_tokens =
               SumSeq(FieldOf(records, "output_tokens"))
        /\ cost_tracker.total_cost_usd = SumSeq(FieldOf(records, "cost_usd"))
        /\ Len(records) = Len(added)
        /\ \A i \in 1..Len(records) :
               /\ records[i].article_id = added[i].article_id
               /\ records[i].input_tokens = added[i].input_tokens
               /\ records[i].output_tokens = added[i].output_tokens
               /\ records[i].cost_usd =
                      cost_usd(added[i].input_tokens, added[i].output_tokens)

\* C12 witness: two articles of different cost were added after a reset that
\* followed a report on two other articles and a threshold check
C12_Witness ==
    /\ Len(added) = 2
    /\ added[1].input_tokens # added[2].input_tokens
    /\ cost_tracker.total_cost_usd =
           cost_tracker.article_costs[1].cost_usd
           + cost_tracker.article_costs[2].cost_usd
    /\ report # <<>>
    /\ report[1].ok
    /\ report[1].value[1].total_articles = 2
    /\ report[1].value[1].cost_breakdown # cost_tracker.article_costs
    /\ threshold_ret # <<>>

\* a report whose counts, totals, averages, extremes and time are zero
ZeroReport(r) ==
    /\ r.total_articles = 0
    /\ r.total_input_tokens = 0
    /\ r.total_output_tokens = 0
    /\ r.total_tokens = 0
    /\ r.total_cost_usd = 0
    /\ r.avg_tokens_per_article.num = 0
    /\ r.avg_cost_per_article.num = 0
    /\ r.min_cost_article = 0
    /\ r.max_cost_article = 0
    /\ r.processing_time_ms = 0

\* C13: generate_report on a tracker with no records (newly constructed or
\* just reset) returns, without raising, a report whose article count, token
\* totals, total cost, averages, least and greatest cost and processing time
\* are all zero.
C13_EmptyReport ==
    [][cost_tracker.article_costs = <<>> /\ report' # report =>
          /\ report'[1].ok
          /\ ZeroReport(report'[1].value[1])]_vars

\* C13 witness: the report of a tracker that was reset after something had
\* been added to it and had exceeded a limit
C13_Witness ==
    /\ report # <<>>
    /\ report[1].ok
    /\ ZeroReport(report[1].value[1])
    /\ report[1].value[1].date = 1
    /\ alerted
    /\ cost_tracker = NewCostTracker

\* C14: check_cost_threshold(limit) returns true exactly when the running
\* total cost is strictly greater than the limit and leaves the tracker's
\* accumulators and records unchanged; after it has returned true an article
\* can still be added.
C14_ThresholdCheck ==
    /\ [][threshold_ret' # threshold_ret =>
             /\ threshold_ret'[1].exceeded =
                    (cost_tracker.total_cost_usd > threshold_ret'[1].threshold_usd)
             /\ cost_tracker' = cost_tracker
             /\ added' = added]_vars
    /\ [](alerted /\ Len(cost_tracker.article_costs) < MaxRecords =>
             \A processed \in ProcessedSamples : ENABLED TrackerAdd(processed))

\* C14 witness: the check returned true on a positive total, and the total
\* has grown since
C14_Witness ==
    /\ alerted
    /\ threshold_ret # <<>>
    /\ threshold_ret[1].exceeded
    /\ cost_tracker.total_cost_usd > threshold_ret[1].total_cost_usd
    /\ threshold_ret[1].total_cost_usd > 0

\* C15: reset clears every accumulator.  Whenever nothing has been added
\* since the last reset, whatever was added before it, the totals are zero
\* and the list of cost records is empty: the tracker equals a newly
\* constructed one.
C15_ResetClears ==
    added = <<>> =>
        /\ cost_tracker.total_input_tokens = 0
        /\ cost_tracker.total_output_tokens = 0
        /\ cost_tracker.total_cost_usd = 0
        /\ cost_tracker.article_costs = <<>>
        /\ cost_tracker = NewCostTracker

\* C15 witness: a tracker that is clear although a report on two articles
\* was drawn from it
C15_Witness ==
    /\ added = <<>>
    /\ cost_tracker = NewCostTracker
    /\ report # <<>>
    /\ report[1].ok
    /\ report[1].value[1].total_articles = 2
    /\ report[1].value[1].total_cost_usd > 0

(***************************************************************************)
(* Properties of the single gates, under SpecGates.                        *)
(***************************************************************************)
\* the distinct keywords of the lexicon that occur in the text
DistinctKeywords(terms) ==
    { k \in Range(ALL_RELEVANT_KEYWORDS) : KeywordIn(k, terms) }

\* C16: the topic-relevance gate passes an article if and only if at least
\* MIN_KEYWORD_MATCHES (2) distinct keywords of the lexicon occur in its title
\* plus body; a text that holds one distinct keyword fails.
C16_DistinctKeywordCount ==
    \A j \in 1..Len(results) :
        results[j].gate_name = "topic_relevance" =>
            (results[j].passed <=>
                Cardinality(DistinctKeywords(gate_article[1].terms))
                    >= MIN_KEYWORD_MATCHES)

\* the step appends the result of the duplicate-detection gate
DuplicateChecked ==
    /\ Len(results') = Len(results) + 1
    /\ results'[Len(results')].gate_name = "duplicate_detection"

\* the content hash of the article under check is in the day's partition
HashInCorpus ==
    \E i \in 1..Len(corpus) :
        corpus[i].hash_content = gate_article[1].hash_content

\* the result just appended fails with the hash reason and the check made
\* no lookup but hash_exists
FailedOnHashAlone ==
    /\ ~ results'[Len(results')].passed
    /\ results'[Len(results')].gate_reason = <<"Duplicate content hash">>
    /\ lookups' = Append(lookups, "hash_exists")

TemporalChecked ==
    /\ Len(results') = Len(results) + 1
    /\ results'[Len(results')].gate_name = "temporal_relevance"

\* the result just appended fails exactly when the date is more than the
\* maximal age before the current time, and its reason names the source
TemporalResultFor(article_date, date_source) ==
    LET result == results'[Len(results')]
    IN  /\ ~ result.passed <=> now - article_date > MAX_ARTICLE_AGE_HOURS
        /\ result.gate_reason[2] = date_source
        /\ result.gate_reason[3] = now - article_date
        /\ result.gate_reason[1] = IF result.passed THEN "Article is recent"
                                                    ELSE "Article too old"

\* C18 as claimed: the temporal gate uses the date parsed from a /YYYY/MM/DD/
\* segment of the URL when one is present and otherwise the scrape timestamp;
\* it fails if and only if the age of that date is strictly greater than the
\* maximum, and the reason names the source used.
C18_UrlDateWhenPresent ==
    [][TemporalChecked =>
          LET article == gate_article[1]
              parsed == parse_date_from_url_any(article.url)
          IN  IF parsed # <<>>
                THEN TemporalResultFor(parsed[1], "URL")
                ELSE TemporalResultFor(article.scraped_at, "scraped_at")]_vars

\* C18 as amended: the temporal gate uses the date of the first /YYYY/MM/DD/
\* segment of the URL when the URL has such a segment and its digits spell a
\* date of the calendar, and otherwise the scrape timestamp; it fails if and
\* only if the age of that date is strictly greater than the maximum, and
\* the reason names the source used.
C18_FirstSegmentDate ==
    [][TemporalChecked =>
          LET article == gate_article[1]
              first == IF article.url = <<>> THEN Raise("no segment")
                       ELSE datetime(article.url[1].year, article.url[1].month,
                                     article.url[1].day)
          IN  IF first.ok
                THEN TemporalResultFor(first.value[1], "URL")
                ELSE TemporalResultFor(article.scraped_at, "scraped_at")]_vars

\* C18 witness: an article whose URL has digits that spell no date before a
\* segment with a date 340 hours old passed on its scrape timestamp
C18_Witness ==
    /\ results # <<>>
    /\ results[Len(results)].gate_name = "temporal_relevance"
    /\ results[Len(results)].passed
    /\ results[Len(results)].gate_reason[1] = "Article is recent"
    /\ results[Len(results)].gate_reason[2] = "scraped_at"
    /\ gate_article[1].url # <<>>
    /\ parse_date_from_url_any(gate_article[1].url) # <<>>
    /\ now - parse_date_from_url_any(gate_article[1].url)[1]
           > MAX_ARTICLE_AGE_HOURS

\* C19: every gate's check leaves the article unchanged and always returns a
\* GateCheckResult carrying the identity of the checked article and the name
\* of that gate; a failed check is a result with passed = false and a reason,
\* never an exception out of the gate or the pipeline.  So while a call is
\* in progress or has returned the article is the one the caller handed in,
\* the i-th result is of that article and of the i-th configured gate with a
\* boolean outcome and a reason, and while a gate remains to be invoked the
\* loop can go on, whatever the storage and the URL are like.
C19_ChecksReturnResults ==
    gate_pc \in {"loop", "returned"} =>
        /\ gate_article[1] = ArticlePool[gate_article[1].article_id]
        /\ Len(results) <= Len(gates)
        /\ \A i \in 1..Len(results) :
               /\ results[i].article_id = gate_article[1].article_id
               /\ results[i].gate_name = gates[i]
               /\ results[i].passed \in BOOLEAN
               /\ results[i].gate_reason # <<>>
        /\ gate_pc = "loop" /\ gate_i <= Len(gates) =>
               ENABLED (RunIteration \/ RunAllIteration)
        /\ gate_pc = "returned" /\ ~ gate_ret[1].passed =>
               /\ gate_ret[1].results = results
               /\ \E i \in 1..Len(results) : ~ results[i].passed

\* C19 witness: run_all_gates returned four results, the first a failure, for
\* an article whose URL digits spell no date, every read of the storage
\* failing
C19_Witness ==
    /\ gate_pc = "returned"
    /\ gate_mode = "run_all"
    /\ Len(gates) = 4
    /\ Len(results) = 4
    /\ ~ results[1].passed
    /\ ~ gate_ret[1].passed
    /\ storage_faults = StorageLookups
    /\ lookups = << "hash_exists", "find_similar_titles" >>
    /\ gate_article[1].url # <<>>
    /\ parse_date_from_url(gate_article[1].url) = <<>>

QualityChecks(article) ==
    << [violated |-> article.content_length < MIN_CONTENT_LENGTH,
        reason |-> "Content too short"],
       [violated |-> article.content_length > MAX_CONTENT_LENGTH,
        reason |-> "Content too long"],
       [violated |-> IF article.word_count = 0 THEN TRUE
                     ELSE article.spanish_count * 100
                              < REQUIRED_SPANISH_RATIO * article.word_count,
        reason |-> "Spanish ratio too low"],
       [violated |-> article.title_blank, reason |-> "Missing title"],
       [violated |-> article.content_blank, reason |-> "Missing content"] >>

\* C25: the content-quality gate applies its checks in the order minimum
\* length, maximum length, language ratio, non-empty title, non-empty
\* content; the reason of a failing result is that of the first check in
\* this order that the article violates, and the gate passes only if all
\* five hold.  So a body of 150 characters fails with the length reason
\* whatever its other defects.
C25_FirstFailingCheck ==
    \A i \in 1..Len(results) :
        results[i].gate_name = "content_quality" =>
            LET checks == QualityChecks(gate_article[1])
                failing == { k \in 1..Len(checks) : checks[k].violated }
            IN  /\ results[i].passed <=> failing = {}
                /\ ~ results[i].passed =>
                       \E k \in failing :
                           /\ \A other \in failing : k <= other
                           /\ results[i].gate_reason = << checks[k].reason >>
                /\ gate_article[1].content_length = 150 =>
                       results[i].gate_reason = <<"Content too short">>

\* C25 witness: an article that is long enough, low in language markers and
\* without a title failed on the language ratio
C25_Witness ==
    /\ gate_pc = "returned"
    /\ Len(results) = 1
    /\ results[1].gate_reason = <<"Spanish ratio too low">>
    /\ gate_article[1].title_blank
    /\ gate_article[1].content_length = 300
    /\ gate_article[1].word_count > 0

(***************************************************************************)
(* Properties of the duplicate-detection gate, under SpecGates.            *)
(***************************************************************************)
\* the places in the corpus of the titles whose normalized similarity ratio
\* to the title of the article under check is 0.9 or more
SimilarPlaces ==
    { i \in 1..Len(corpus) :
          LET ratio == calculate_similarity(gate_article[1].title,
                                            corpus[i].title)
          IN  ratio.num * 100 >= SIMILARITY_THRESHOLD * ratio.den }

\* the result just appended fails on the first similar title of the corpus
\* if there is one, and passes otherwise
DecidedByTitles ==
    LET result == results'[Len(results')]
    IN  IF SimilarPlaces = {}
          THEN /\ result.passed
               /\ result.gate_reason = <<"No duplicates detected">>
          ELSE /\ ~ result.passed
               /\ \E i \in SimilarPlaces :
                      /\ \A j \in SimilarPlaces : i <= j
                      /\ result.gate_reason
                             = <<"Similar title found", corpus[i].title>>

C30_ReadFailurePasses ==
    [][DuplicateChecked /\ storage_faults = StorageLookups =>
          /\ ~ hash_exists(gate_article[1].hash_content, corpus,
                           storage_faults)
          /\ find_similar_titles(gate_article[1].title, SIMILARITY_THRESHOLD,
                                 corpus, storage_faults) = <<>>
          /\ lookups' = lookups \o << "hash_exists", "find_similar_titles" >>
          /\ results'[Len(results')].passed
          /\ results'[Len(results')].gate_reason
                 = <<"No duplicates detected">>]_vars

\* C30 witness: an article whose hash and title are in the corpus passed
\* duplicate detection while every read of the corpus failed
C30_Witness ==
    /\ gate_pc = "returned"
    /\ results # <<>>
    /\ results[Len(results)].gate_name = "duplicate_detection"
    /\ results[Len(results)].passed
    /\ storage_faults = StorageLookups
    /\ evaluated[Len(results)].faults = << StorageLookups >>
    /\ HashInCorpus
    /\ SimilarPlaces # {}

(***************************************************************************)
(* Properties of the order of the stages, under SpecChain.                 *)
(***************************************************************************)
\* what stage k makes of a reply
ExecuteStep(stage, reply) ==
    CASE stage = 1 -> execute_step_1(reply)
      [] stage = 2 -> execute_step_2(reply)
      [] stage = 3 -> execute_step_3(reply)
      [] stage = 4 -> execute_step_4(reply)

\* C23: within one article the four chain stages run in the strict order
\* 1, 2, 3, 4.  The stages that invoked the collaborator for the article are
\* 1..n without repetition (no retry); each but the last returned a
\* validated output before the next was invoked; while the chain is in
\* progress the next stage is n + 1; and after a failure at stage k the
\* stages invoked are 1..k, no later one.
C23_StagesInOrder ==
    /\ Len(llm_calls) <= 4
    /\ llm_calls = [k \in 1..Len(llm_calls) |-> k]
    /\ Len(replies) = Len(llm_calls)
    /\ \A k \in 1..(Len(llm_calls) - 1) : ExecuteStep(k, replies[k]).ok
    /\ proc_pc = "chain" =>
           /\ chain_stage = Len(llm_calls) + 1
           /\ chain_stage > 1 => summary_output # <<>>
           /\ chain_stage > 2 => topic_output # <<>>
           /\ chain_stage > 3 => impact_output # <<>>
    /\ chain_outcome # <<>> =>
           /\ Len(llm_calls) = chain_outcome[1].stage
           /\ chain_outcome[1].ok
                  <=> ExecuteStep(Len(llm_calls), replies[Len(llm_calls)]).ok
           /\ chain_outcome[1].ok => Len(llm_calls) = 4

\* C23 witness: the chain of an article failed at stage 3 on a reply that
\* did not validate, after stages 1 and 2 and before any call of stage 4
C23_Witness ==
    /\ chain_outcome # <<>>
    /\ ~ chain_outcome[1].ok
    /\ chain_outcome[1].stage = 3
    /\ chain_outcome[1].error = "ValidationError"
    /\ llm_calls = << 1, 2, 3 >>
    /\ proc_pc = "loop"

\* C24: in stage 3 an enumerated field received with a value outside its
\* closed set (an unrecognized time horizon, an unrecognized direction) is
\* dropped or replaced by a default and is not fatal: when the rest of the
\* response is valid the chain does not fail at stage 3 and goes on to
\* stage 4.
C24_UnrecognizedEnumNotFatal ==
    /\ Parsed(3)
    /\ Get(Json(3).mechanisms, <<>>) # <<>>
    /\ \/ Get(Json(3).time_horizon, "medium-term") \notin TimeHorizon
       \/ Get(Json(3).direction, "NEUTRAL") \notin ImpactDirection
    => /\ ~ ChainFailedAt(3)
       /\ Len(llm_calls) = 3 => proc_pc = "chain" /\ chain_stage = 4

\* C27: generate_report is a pure aggregation: it changes no accumulator of
\* the tracker, and a report it has returned is a fixed snapshot: neither its
\* totals nor its per-article breakdown change when add_processed_article is
\* called on the same tracker afterwards.
C27_ReportIsSnapshot ==
    [][/\ report' # report /\ added' = added => cost_tracker' = cost_tracker
       /\ Len(added') > Len(added) => report' = report]_vars

(***************************************************************************)
(* The two modes of the gate pipeline compared, under SpecAgree.           *)
(***************************************************************************)
\* the returns of run and of run_all_gates, when a caller has both
ReturnOf(mode) == IF earlier[1].mode = mode THEN earlier[1].ret ELSE gate_ret[1]

\* both calls found the same circumstances: each gate that both evaluated
\* read the same clock and the same storage (the corpus only grows, so as
\* many rows are the same rows)
SameCircumstances ==
    \A i \in 1..Min(Len(evaluated), Len(earlier[1].evaluated)) :
        evaluated[i] = earlier[1].evaluated[i]

\* C29: for any article and any list of gates that decide alike in both
\* calls, the fail-fast and the exhaustive mode agree: the passed flag of run
\* equals the all_passed flag of run_all_gates, the results of run are a
\* prefix of those of run_all_gates, and among the results of run only the
\* last can be a failure.
C29_ModesAgree ==
    gate_pc = "returned" /\ earlier # <<>> /\ SameCircumstances =>
        LET fast == ReturnOf("run")
            all == ReturnOf("run_all")
            n == Len(fast.results)
        IN  /\ fast.passed = all.passed
            /\ n <= Len(all.results)
            /\ SubSeq(all.results, 1, n) = fast.results
            /\ \A i \in 1..(n - 1) : fast.results[i].passed

\* C29 witness: run stopped at the second of four gates, run_all_gates went
\* on and found two failures, the second gate's and a later one
C29_Witness ==
    /\ gate_pc = "returned"
    /\ earlier # <<>>
    /\ SameCircumstances
    /\ Len(ReturnOf("run").results) = 2
    /\ Len(ReturnOf("run_all").results) = 4
    /\ ~ ReturnOf("run_all").passed
    /\ Cardinality({ i \in 1..4 : ~ ReturnOf("run_all").results[i].passed }) = 2

(***************************************************************************)
(* Properties of the tracker shared by workers, under SpecWorkers.         *)
(***************************************************************************)
\* no worker is inside add_processed_article
AllReturned == \A w \in Workers : workers[w].pc = "idle"

\* the records are those of the articles added, in the order of the appends
RecordsReflectAdded ==
    /\ Len(cost_tracker.article_costs) = Len(added)
    /\ \A i \in 1..Len(added) :
           /\ cost_tracker.article_costs[i].article_id = added[i].article_id
           /\ cost_tracker.article_costs[i].input_tokens =
                  added[i].input_tokens
           /\ cost_tracker.article_costs[i].output_tokens =
                  added[i].output_tokens

\* each total is the sum of the amounts of the articles added
TotalsReflectAdded ==
    \A k \in 1..Len(TotalFields) :
        cost_tracker[TotalFields[k]] =
            SumSeq([i \in 1..Len(added) |-> Amount(added[i], k)])

\* C28 as claimed: updates of the tracker are mutually exclusive.  Under
\* every interleaving of two add_processed_article calls by workers that
\* share the tracker, the final token totals, total cost and record list
\* reflect both articles.
C28_NoLostUpdate ==
    AllReturned => RecordsReflectAdded /\ TotalsReflectAdded

\* C28 as amended: the record list reflects both articles under every
\* interleaving; the token totals and the total cost reflect both when the
\* calls were made one after the other.
C28_NoLostUpdateInSequence ==
    AllReturned =>
        /\ RecordsReflectAdded
        /\ ~ overlapped => TotalsReflectAdded

\* C28 witness: two workers each added an article of another cost, the second
\* after the first had returned
C28_Witness ==
    /\ AllReturned
    /\ ~ overlapped
    /\ Len(added) = 2
    /\ added[1].input_tokens # added[2].input_tokens
    /\ cost_tracker.total_cost_usd > 0

(***************************************************************************)
(* Properties of the orchestrator, under SpecPipeline.                     *)
(***************************************************************************)
\* for each gate, the number of articles whose fail-fast run ended at it
GateFailureCounts ==
    [g \in { OrchestratorGates[i] : i \in DOMAIN OrchestratorGates } |->
        Cardinality({ j \in DOMAIN all_gate_results :
                        /\ all_gate_results[j].gate_name = g
                        /\ ~ all_gate_results[j].passed })]

\* the number of articles whose chain was started and aborted
ChainFailureCount == Len(attempted) - Len(processed_articles)

\* the keys of the summary that hold a flag, a text or a number
ScalarKeys ==
    {"success", "error", "duration_seconds", "articles_scraped",
     "articles_passed_gates", "articles_processed",
     "articles_failed_processing", "gate_pass_rate", "total_cost_usd",
     "avg_cost_per_article", "total_tokens"}

\* C21: the summary that the full pipeline returns for a completed run
\* reports the number of chain failures (the admitted articles whose chain
\* aborted) and, separately and per gate name, the number of gate failures
\* (the articles whose fail-fast run ended at that gate).
C21_SummaryCounts ==
    stats # <<>> /\ stats[1].success =>
        /\ stats[1].articles_failed_processing = ChainFailureCount
        /\ \E key \in DOMAIN stats[1] \ ScalarKeys :
               stats[1][key] = GateFailureCounts

\* C22: only admitted articles are enriched.  Under every command the chain
\* is started on an article only after gate_pipeline.run returned
\* passed=true for it.
C22_OnlyAdmittedEnriched ==
    \A i \in 1..Len(attempted) :
        \E j \in 1..Len(passed_articles) :
            passed_articles[j].article_id = attempted[i]

====
